---- MODULE Spec2Model ----
(***************************************************************************)
(* Laundry backend: OTP authentication (authController.js), the access     *)
(* guard (middleware/auth.js) and the admin user routes (userRoutes.js).   *)
(*                                                                         *)
(* Every HTTP request is one handler instance running in a slot of Procs.  *)
(* A handler is cut into one action per store round trip (each `await` of  *)
(* a Mongoose call); the synchronous code before the await belongs to the  *)
(* action of that round trip.  The store (users, admins) is the only       *)
(* shared state.                                                           *)
(*                                                                         *)
(* Spec runs one OTP request at a time, over every input.  SpecRace runs   *)
(* two OTP requests for one phone number concurrently, SpecSend two        *)
(* sendOtp requests.  SpecGuard runs the guarded user routes, the admin    *)
(* login and the deletion of users, one request at a time.                 *)
(* SpecAdmin adds the creation and deactivation of admins and the service  *)
(* write routes.  SpecContacts runs syncContacts (contactController.js)    *)
(* and SpecSms the SMS sync routes (smsController.js), one request at a    *)
(* time over every input; SpecSyncRace runs two sync requests of one user  *)
(* concurrently, SpecLockstep the contact routes and the profile update.   *)
(* SpecOrders runs the order routes and SpecBookings adds the booking      *)
(* routes, one request at a time; SpecServices runs the service            *)
(* controllers one request at a time and SpecServiceRace two at a time.    *)
(***************************************************************************)
EXTENDS Integers, Sequences, FiniteSets, TLC

(* ------------------------------ bounds --------------------------------- *)
\* how far the clock may run past one OTP lifetime
MaxSkew == 1
\* number of distinct values generateOTP() is sampled at
NumCodes == 2
\* number of User documents ever created
MaxIds == 2
\* number of times a client submits one syncContacts request
MaxRuns == 3
\* number of Order documents ever created
MaxOrders == 2
\* number of Service documents ever created, those of the seed included
MaxServices == 3

\* slots of concurrently running request handlers
Procs == {1, 2}
\* one request at a time
Procs1 == {1}

(* --------------------------- program constants ------------------------- *)
\* new Date(Date.now() + 10 * 60 * 1000)
OTP_TTL == 10 * 60 * 1000
\* Math.floor(100000 + Math.random() * 900000)
OTP_MIN == 100000
\* expiresIn: process.env.JWT_EXPIRE || '7d', in seconds
JWT_TTL == 7 * 24 * 60 * 60
\* /^[0-9]{10}$/
PHONE_LEN == 10

(* ------------------------------ JS values ------------------------------ *)
\* A JavaScript value as the handlers see it: its type and its text.
\* `===` is equality of both, so the number 100000 differs from "100000".
Str(s) == [t |-> "string", v |-> s]
Num(s) == [t |-> "number", v |-> s]
Undef == [t |-> "undefined", v |-> ""]
Bool(b) == [t |-> "boolean", v |-> IF b THEN "true" ELSE "false"]
Null == [t |-> "null", v |-> ""]

\* variant: a != b, which converts the operands to a common type first
LooseNotEqual(a, b) == a.v # b.v

\* a !== b
StrictNotEqual(a, b) == a # b

\* !x for the values that occur in request bodies
Falsy(x) == x = Undef \/ x = Str("") \/ x = Num("0")

\* a Date field that is undefined; `undefined < date` is false in JS
NoDate == -1

\* variant: the comparison turned round, d > now
DateAfter(d, now) == d # NoDate /\ d > now

\* d < now for a Date field d
DateBefore(d, now) == d # NoDate /\ d < now

\* req.body.contacts / req.body.smsData: an array with its items, a value
\* that is not an array (an object), or nothing
List(items) == [t |-> "array", v |-> items]
NotList == [t |-> "object", v |-> << >>]
NoList == [t |-> "undefined", v |-> << >>]

(* ---------------------------- phone numbers ---------------------------- *)
Digits == {"0", "1", "2", "3", "4", "5", "6", "7", "8", "9"}

\* a string as the sequence of its characters
PhoneA == <<"9", "8", "7", "6", "5", "4", "3", "2", "1", "0">>
PhoneB == <<"9", "8", "7", "6", "5", "4", "3", "2", "1", "1">>
PhoneShort == <<"9", "8", "7", "6", "5">>
PhoneLong == <<"9", "8", "7", "6", "5", "4", "3", "2", "1", "0", "0">>
PhoneAlpha == <<"9", "8", "7", "6", "5", "4", "3", "2", "1", "x">>
PhoneEmpty == << >>
\* req.body.phoneNumber absent
PhoneMissing == <<"undefined">>

ValidPhones == {PhoneA, PhoneB}
InvalidPhones == {PhoneShort, PhoneLong, PhoneAlpha, PhoneEmpty, PhoneMissing}
\* the number that signs up, and the numbers that are only looked up
SignupPhones == {PhoneA} \cup InvalidPhones
LookupPhones == {PhoneA, PhoneB, PhoneEmpty, PhoneMissing}

\* !phoneNumber
PhoneFalsy(ph) == ph = PhoneMissing \/ ph = PhoneEmpty

\* variant: the pattern without its end anchor, /^[0-9]{10}/
phoneRegexTestUnanchored(ph) ==
  /\ ph # PhoneMissing
  /\ Len(ph) >= PHONE_LEN
  /\ \A i \in 1..PHONE_LEN : ph[i] \in Digits

\* phoneRegex.test(phoneNumber) with phoneRegex = /^[0-9]{10}$/
phoneRegexTest(ph) ==
  /\ ph # PhoneMissing
  /\ Len(ph) = PHONE_LEN
  /\ \A i \in 1..Len(ph) : ph[i] \in Digits

(* ----------------------------- sync inputs ----------------------------- *)
\* an item of req.body.contacts: { name, phoneNumber }, or null
ContactItem(n, ph) == [t |-> "object", name |-> n, phoneNumber |-> ph]
NullContact == [t |-> "null", name |-> "", phoneNumber |-> PhoneMissing]

\* stands for a name that is an object, which Mongoose cannot cast to the
\* String of the schema
NameObject == "[object Object]"

ContactItems ==
  {ContactItem("Ann", PhoneA), ContactItem("Bob", PhoneA), ContactItem("Ann", PhoneB),
   ContactItem(NameObject, PhoneB), NullContact}

\* req.body.contacts: nothing, not an array, or an array of up to two items
\* (which may repeat a phone number)
ContactBodies ==
  {NoList, NotList, List(<< >>)}
    \cup {List(<<a>>) : a \in ContactItems}
    \cup {List(<<a, b>>) : a \in ContactItems, b \in ContactItems}

\* req.body.userPhoneNumber
OwnPhones == {PhoneMissing, PhoneB}

\* an item of req.body.smsData: { id, address, body, date, type }, or null;
\* id "" stands for an item without id, complete for the presence of every
\* other field the schema requires
SmsItem(id, c) == [t |-> "object", id |-> id, complete |-> c]
NullSms == [t |-> "null", id |-> "", complete |-> FALSE]
\* req.body.smsData absent
NoSms == [t |-> "undefined", id |-> "", complete |-> FALSE]

SmsItems ==
  {SmsItem("m1", TRUE), SmsItem("m2", TRUE), SmsItem("m1", FALSE), SmsItem("", TRUE), NullSms}

\* req.body.smsData of the batch route: nothing, not an array, or an array of
\* up to two items
SmsBodies ==
  {NoList, NotList, List(<< >>)}
    \cup {List(<<a>>) : a \in SmsItems}
    \cup {List(<<a, b>>) : a \in SmsItems, b \in SmsItems}

(* ------------------------------- OTP codes ----------------------------- *)
\* generateOTP(): Math.floor(100000 + Math.random() * 900000).toString(),
\* sampled at the low end of its range [100000, 999999]; two calls may
\* return the same value
generateOTP == {ToString(OTP_MIN + i) : i \in 0..(NumCodes - 1)}

\* values of process.env.STATIC_OTP ("" stands for unset, which is falsy)
StaticOtpValues == {"", "123456"}
\* values of process.env.NODE_ENV ("" stands for unset)
NodeEnvValues == {"development", "production", ""}

\* what a client may put in req.body.otp
PresentedOtps ==
  {Undef, Num(ToString(OTP_MIN))}
    \cup {Str(c) : c \in generateOTP \cup {"123456"}}

(* -------------------------------- records ------------------------------ *)
NoId == 0
UserIds == 1..MaxIds
\* the users that call the sync routes, and their phone numbers
SyncUsers == {1, 2}
SyncPhone(id) == IF id = 1 THEN PhoneA ELSE PhoneB
\* the _id of the Admin document made by the seed script (ObjectIds are
\* unique across collections)
SeedAdminId == MaxIds + 1

\* result of a find that matched nothing (null)
NoDoc == [_id |-> NoId]

\* session token: jwt.sign({ id }, secret, { expiresIn })
NoToken == [sub |-> NoId, exp |-> 0]

\* req.headers.authorization: scheme, token and whether the token carries a
\* signature made with JWT_SECRET
NoHeader == [scheme |-> "", token |-> NoToken, signed |-> FALSE]
Bearer(t, sg) == [scheme |-> "Bearer", token |-> t, signed |-> sg]

\* the `success` flag and the `data` object of a sync route's response:
\* synced / skipped / errors / errorDetails of syncSmsBatch, inserted /
\* updated / total / totalInDb of syncContacts
NoData == [success |-> TRUE, synced |-> 0, skipped |-> 0, errors |-> 0, errorDetails |-> << >>,
           inserted |-> 0, updated |-> 0, total |-> 0, totalInDb |-> 0]

\* the `stats` object of the order listings
NoStats == [totalOrders |-> 0, delivered |-> 0, cancelled |-> 0, pending |-> 0,
            picked |-> 0, inProcess |-> 0]

\* res.status(s).json({ message, otp, token, user, data, stats, orders });
\* docs: the User documents that the `orders` of the response embed
Response(s, m, o, t) ==
  [status |-> s, message |-> m, otp |-> o, token |-> t, user |-> NoDoc, data |-> NoData,
   stats |-> NoStats, docs |-> {}]
NoResponse == Response(0, "", Undef, NoToken)
WithUser(r, u) == [r EXCEPT !.user = u]
WithData(r, d) == [r EXCEPT !.data = d]
WithOrders(r, st, ds) == [r EXCEPT !.stats = st, !.docs = ds]

\* a path segment of a request URL (req.params.id, req.params.orderId) or an
\* id of the request body: the 24 hex digits of ObjectId n, or another word
Oid(n) == [t |-> "objectid", v |-> ToString(n)]
Word(w) == [t |-> "word", v |-> w]
NoSegment == Word("")

\* history: no syncContacts has completed
NoSync == [userId |-> NoId, contacts |-> NoList, userPhoneNumber |-> PhoneMissing,
           rows |-> {}, runs |-> 0]

\* bcrypt.hash(pw, 10) and bcrypt.compare(pw, hash)
BcryptHash(pw) == <<"bcrypt", pw>>
BcryptCompare(pw, hash) == hash = BcryptHash(pw)

VARIABLES
  users,      \* the User collection: _id -> document
  nextId,     \* next ObjectId the driver hands out
  admins,     \* the Admin collection: _id -> document
  clock,      \* Date.now()
  nodeEnv,    \* process.env.NODE_ENV
  staticOtp,  \* process.env.STATIC_OTP
  issued,     \* session tokens that were sent to clients
  pc,         \* per handler: where it is
  req,        \* per handler: the request it was given
  loc,        \* per handler: its local variables
  resp,       \* per handler: the response it has sent
  otpLog,     \* history: per user, the codes of the last OTP writes
  readers,    \* history: verifyOtp handlers that read the OTP now stored
  otpUses,    \* history: per user, verifyOtp successes for the OTP last written
  contacts,   \* the Contact collection: a set of rows, each with its _id
  smsRows,    \* the Sms collection: a set of rows, each with its _id
  lastSync,   \* history: the last completed syncContacts and the rows it left
  orders,     \* the Order collection: _id -> document
  services    \* the Service collection: a set of rows, each with its _id

vars == <<users, nextId, admins, clock, nodeEnv, staticOtp, issued, pc, req, loc, resp,
          otpLog, readers, otpUses, contacts, smsRows, lastSync, orders, services>>

\* the collections and the history of the sync routes
sync == <<contacts, smsRows, lastSync, orders, services>>

\* the collections of the order and service routes
shop == <<orders, services>>

hist == <<otpLog, readers, otpUses>>

\* history of one user's OTP: last is the code the latest sendOtp / resendOtp
\* wrote and by is that operation; prev is the code of the sendOtp before it
\* when the latest two writes were both made by sendOtp
NoLog == [prev |-> Undef, last |-> Undef, by |-> ""]

NoReq == [op |-> "", phoneNumber |-> PhoneMissing, otp |-> Undef,
          authorization |-> NoHeader, id |-> NoId, email |-> "", password |-> "",
          name |-> "", userId |-> NoId, contacts |-> NoList,
          userPhoneNumber |-> PhoneMissing, smsData |-> NoList, sms |-> NoSms,
          contactPermission |-> Undef, segment |-> NoSegment, status |-> Undef,
          serviceId |-> NoSegment, complete |-> FALSE, price |-> Undef,
          isActive |-> Undef]
\* user: the document read by find; otp/otpExpiry: the generated pair;
\* at: history, the Date.now() of the expiry computation or the `new Date()`
\* of the expiry check; next: history, the guard called next()
\* had: history, the items whose key had a row when they were looked up;
\* before: history, the number of Sms rows when the handler started;
\* list: the contacts array after the own number was pushed; i: items of
\* the list dealt with so far; found: the row the last findOne / upsert
\* match returned; inserted / updated / synced / skipped / errors: counters;
\* order / service: the Order / Service document read by findById;
\* handler: history, the route handler the router dispatched the request to
NoLoc == [user |-> NoDoc, otp |-> Undef, otpExpiry |-> NoDate, at |-> NoDate, next |-> FALSE,
          list |-> << >>, i |-> 0, found |-> FALSE, inserted |-> 0, updated |-> 0,
          synced |-> 0, skipped |-> 0, errors |-> << >>, had |-> 0, before |-> 0,
          order |-> NoDoc, service |-> NoDoc, handler |-> ""]

(* --------------------------- the User collection ----------------------- *)
\* User.findOne({ phoneNumber }): the document with its _id, or null
FindOne(ph) ==
  IF \E id \in DOMAIN users : users[id].phoneNumber = ph
  THEN LET id == CHOOSE i \in DOMAIN users : users[i].phoneNumber = ph
       IN  [_id |-> id] @@ users[id]
  ELSE NoDoc

\* User.findById(id)
FindById(id) == IF id \in DOMAIN users THEN [_id |-> id] @@ users[id] ELSE NoDoc

\* Admin.findById(id)
AdminFindById(id) == IF id \in DOMAIN admins THEN [_id |-> id] @@ admins[id] ELSE NoDoc

\* Admin.findOne({ email })
AdminFindOne(email) ==
  IF \E id \in DOMAIN admins : admins[id].email = email
  THEN LET id == CHOOSE i \in DOMAIN admins : admins[i].email = email
       IN  [_id |-> id] @@ admins[id]
  ELSE NoDoc

\* .select('-otp -otpExpiry')
SelectWithoutOtp(doc) ==
  IF doc = NoDoc THEN NoDoc ELSE [f \in DOMAIN doc \ {"otp", "otpExpiry"} |-> doc[f]]

\* a new document; the schema defaults isVerified and contactPermission to
\* false
NewUser(ph, otp, otpExpiry) ==
  [phoneNumber |-> ph, otp |-> otp, otpExpiry |-> otpExpiry, isVerified |-> FALSE,
   contactPermission |-> FALSE]

\* doc.save() of a loaded document whose fields were assigned as in `set`:
\* Mongoose sends $set/$unset only for the paths whose assigned value
\* differs from the value that was loaded (an equal value does not mark the
\* path modified), in one atomic update filtered by _id.
ModifiedPaths(doc, set) == {f \in DOMAIN set : set[f] # doc[f]}

SaveApply(stored, doc, set) ==
  [f \in DOMAIN stored |->
     IF f \in ModifiedPaths(doc, set) THEN set[f] ELSE stored[f]]

\* the collection after the stored document of doc._id took the update
Saved(doc, set) == [users EXCEPT ![doc._id] = SaveApply(@, doc, set)]

(* ------------------------------ handlers ------------------------------- *)
\* A handler that has sent its response is "done" until the response has
\* been delivered (Return); it touches nothing any more.  Delivery is
\* immediate: no other handler steps in between, which removes no
\* interleaving of the store operations.
Ready(p, label) == pc[p] = label /\ \A q \in Procs : pc[q] # "done"

\* A new request is served by the first free slot (the slots are
\* interchangeable).
Free(p) == Ready(p, "idle") /\ \A q \in Procs : q < p => pc[q] # "idle"

\* The handler in slot p, whose request is rq and whose locals are lc, sends
\* response r.
Respond(p, rq, lc, r) ==
  /\ pc' = [pc EXCEPT ![p] = "done"]
  /\ req' = [req EXCEPT ![p] = rq]
  /\ loc' = [loc EXCEPT ![p] = lc]
  /\ resp' = [resp EXCEPT ![p] = r]

\* The handler in slot p goes on to its next store round trip.
Await(p, rq, lc, label) ==
  /\ pc' = [pc EXCEPT ![p] = label]
  /\ req' = [req EXCEPT ![p] = rq]
  /\ loc' = [loc EXCEPT ![p] = lc]
  /\ UNCHANGED resp

\* history: operation op (sendOtp / resendOtp) has written code for user id
OtpIssued(id, op, code) ==
  /\ otpLog' = [otpLog EXCEPT ![id] =
                  [prev |-> IF op = "sendOtp" /\ @.by = "sendOtp" THEN @.last ELSE Undef,
                   last |-> code, by |-> op]]
  /\ readers' = {q \in readers : loc[q].user._id # id}
  /\ otpUses' = [otpUses EXCEPT ![id] = 0]

\* history: the verifyOtp in slot p has answered; ok: with a token
OtpVerified(p, ok) ==
  /\ readers' = readers \ {p}
  /\ otpUses' = IF ok /\ p \in readers
                THEN [otpUses EXCEPT ![loc[p].user._id] = @ + 1]
                ELSE otpUses
  /\ UNCHANGED otpLog

\* process.env.STATIC_OTP || generateOTP()
StaticOrGenerated == IF staticOtp # "" THEN {staticOtp} ELSE generateOTP

\* variant: the code is put in every response
SendOtpEchoAlways(otp) == otp

\* otp: (NODE_ENV === 'development' || STATIC_OTP) ? otp : undefined
SendOtpEcho(otp) == IF nodeEnv = "development" \/ staticOtp # "" THEN otp ELSE Undef

\* otp: NODE_ENV === 'development' ? otp : undefined
ResendOtpEcho(otp) == IF nodeEnv = "development" THEN otp ELSE Undef

\* generateToken(id): jwt.sign stamps iat = floor(Date.now() / 1000) and
\* exp = iat + expiresIn, both in seconds
generateToken(id) == [sub |-> id, exp |-> (clock \div 1000) + JWT_TTL]

\* jwt.verify(token, JWT_SECRET) does not throw: the signature is ours and
\* the token has not expired
JwtVerify(h) == h.signed /\ (clock \div 1000) < h.token.exp

\* authorization && authorization.startsWith('Bearer'), then split(' ')[1]
HasToken(h) == h.scheme = "Bearer" /\ h.token # NoToken

\* documents that handlers in flight are about to insert
PendingCreates == Cardinality({q \in Procs : pc[q] = "sendCreate"})

\* sendOtp up to and including `await User.findOne({ phoneNumber })`
SendOtpStart(p, ph) ==
  LET rq == [NoReq EXCEPT !.op = "sendOtp", !.phoneNumber = ph]
  IN  /\ Free(p)
      /\ IF PhoneFalsy(ph)
         THEN Respond(p, rq, NoLoc, Response(400, "Phone number is required", Undef, NoToken))
         ELSE IF ~phoneRegexTest(ph)
         THEN Respond(p, rq, NoLoc,
                      Response(400, "Please provide a valid 10 digit phone number", Undef, NoToken))
         ELSE /\ FindOne(ph) = NoDoc => nextId + PendingCreates <= MaxIds
              /\ \E code \in StaticOrGenerated :
                   Await(p, rq,
                         [NoLoc EXCEPT !.user = FindOne(ph), !.otp = Str(code),
                                       !.otpExpiry = clock + OTP_TTL, !.at = clock],
                         IF FindOne(ph) = NoDoc THEN "sendCreate" ELSE "sendSave")
      /\ UNCHANGED <<users, nextId, admins, clock, nodeEnv, staticOtp, sync, issued, hist>>

\* user = await User.create({ phoneNumber, otp, otpExpiry }), then the response.
\* phoneNumber is `unique`: the insert of a second document with the same
\* number is rejected by the index (E11000) and the handler answers 500.
SendOtpCreate(p) ==
  /\ Ready(p, "sendCreate")
  /\ IF \E id \in DOMAIN users : users[id].phoneNumber = req[p].phoneNumber
     THEN /\ Respond(p, req[p], loc[p], Response(500, "E11000 duplicate key error", Undef, NoToken))
          /\ UNCHANGED <<users, nextId, hist>>
     ELSE /\ users' = users @@ (nextId :> NewUser(req[p].phoneNumber, loc[p].otp,
                                                  loc[p].otpExpiry))
          /\ nextId' = nextId + 1
          /\ Respond(p, req[p], loc[p],
                     Response(200, "OTP sent successfully", SendOtpEcho(loc[p].otp), NoToken))
          /\ OtpIssued(nextId, "sendOtp", loc[p].otp)
  /\ UNCHANGED <<admins, clock, nodeEnv, staticOtp, sync, issued>>

\* variant: the code is not assigned, only the expiry
OtpAssignmentExpiryOnly(p) == [otpExpiry |-> loc[p].otpExpiry]

\* the paths sendOtp / resendOtp assign before save()
OtpAssignment(p) == [otp |-> loc[p].otp, otpExpiry |-> loc[p].otpExpiry]

\* variant: the OTP fields are not cleared
VerifyAssignmentKeepOtp == [isVerified |-> TRUE]

\* user.isVerified = true; user.otp = undefined; user.otpExpiry = undefined
VerifyAssignment == [isVerified |-> TRUE, otp |-> Undef, otpExpiry |-> NoDate]

\* what `await user.save()` of handler p with assignment `set` does: with no
\* modified path nothing is sent to the store ("noop"); otherwise the update
\* is applied to the stored document ("applied"), or save() throws because
\* the document is gone ("gone")
SaveOutcome(p, set) ==
  IF ModifiedPaths(loc[p].user, set) = {} THEN "noop"
  ELSE IF loc[p].user._id \notin DOMAIN users THEN "gone"
  ELSE "applied"

NotFoundOnSave == Response(500, "No document found for query", Undef, NoToken)

\* user.otp = otp; user.otpExpiry = otpExpiry; await user.save(), then the
\* response; echo is the otp field of the response
OtpSave(p, message, echo) ==
  LET out == SaveOutcome(p, OtpAssignment(p))
      id == loc[p].user._id
  IN  /\ users' = IF out = "applied" THEN Saved(loc[p].user, OtpAssignment(p)) ELSE users
      /\ IF out = "gone"
         THEN /\ Respond(p, req[p], loc[p], NotFoundOnSave)
              /\ UNCHANGED hist
         ELSE /\ Respond(p, req[p], loc[p], Response(200, message, echo, NoToken))
              /\ OtpIssued(id, req[p].op, loc[p].otp)

SendOtpSave(p) ==
  /\ Ready(p, "sendSave")
  /\ OtpSave(p, "OTP sent successfully", SendOtpEcho(loc[p].otp))
  /\ UNCHANGED <<nextId, admins, clock, nodeEnv, staticOtp, sync, issued>>

\* verifyOtp up to and including `await User.findOne({ phoneNumber })`
VerifyOtpStart(p, ph, o) ==
  LET rq == [NoReq EXCEPT !.op = "verifyOtp", !.phoneNumber = ph, !.otp = o]
      user == FindOne(ph)
  IN  /\ Free(p)
      /\ IF PhoneFalsy(ph) \/ Falsy(o)
         THEN /\ Respond(p, rq, NoLoc,
                         Response(400, "Phone number and OTP are required", Undef, NoToken))
              /\ UNCHANGED readers
         ELSE IF user = NoDoc
         THEN /\ Respond(p, rq, NoLoc, Response(404, "User not found", Undef, NoToken))
              /\ UNCHANGED readers
         ELSE /\ Await(p, rq, [NoLoc EXCEPT !.user = user], "verifyCheck")
              /\ readers' = readers \cup {p}
      /\ UNCHANGED <<users, nextId, admins, clock, nodeEnv, staticOtp, sync, issued, otpLog, otpUses>>

\* the checks that run when findOne has returned:
\* user.otpExpiry < new Date(), then user.otp !== otp
VerifyOtpCheck(p) ==
  LET lc == [loc[p] EXCEPT !.at = clock]
  IN  /\ Ready(p, "verifyCheck")
      /\ IF DateBefore(loc[p].user.otpExpiry, clock)
         THEN /\ Respond(p, req[p], lc, Response(400, "OTP has expired", Undef, NoToken))
              /\ OtpVerified(p, FALSE)
         ELSE IF StrictNotEqual(loc[p].user.otp, req[p].otp)
         THEN /\ Respond(p, req[p], lc, Response(400, "Invalid OTP", Undef, NoToken))
              /\ OtpVerified(p, FALSE)
         ELSE /\ Await(p, req[p], lc, "verifySave")
              /\ UNCHANGED hist
      /\ UNCHANGED <<users, nextId, admins, clock, nodeEnv, staticOtp, sync, issued>>

\* the sanitized user projection of the verifyOtp response
VerifiedUser(doc) == [_id |-> doc._id, phoneNumber |-> doc.phoneNumber]

\* await user.save(); token = generateToken(user._id); the 200 response
VerifyOtpSave(p) ==
  LET out == SaveOutcome(p, VerifyAssignment)
      token == generateToken(loc[p].user._id)
  IN  /\ Ready(p, "verifySave")
      /\ users' = IF out = "applied" THEN Saved(loc[p].user, VerifyAssignment) ELSE users
      /\ IF out = "gone"
         THEN /\ Respond(p, req[p], loc[p], NotFoundOnSave)
              /\ UNCHANGED issued
         ELSE /\ Respond(p, req[p], loc[p],
                         WithUser(Response(200, "OTP verified successfully", Undef, token),
                                  VerifiedUser(loc[p].user)))
              /\ issued' = issued \cup {token}
      /\ OtpVerified(p, out # "gone")
      /\ UNCHANGED <<nextId, admins, clock, nodeEnv, staticOtp, sync>>

\* resendOtp up to and including `await User.findOne({ phoneNumber })`
ResendOtpStart(p, ph) ==
  LET rq == [NoReq EXCEPT !.op = "resendOtp", !.phoneNumber = ph]
  IN  /\ Free(p)
      /\ IF PhoneFalsy(ph)
         THEN Respond(p, rq, NoLoc, Response(400, "Phone number is required", Undef, NoToken))
         ELSE IF FindOne(ph) = NoDoc
         THEN Respond(p, rq, NoLoc, Response(404, "User not found", Undef, NoToken))
         ELSE Await(p, rq, [NoLoc EXCEPT !.user = FindOne(ph)], "resendGen")
      /\ UNCHANGED <<users, nextId, admins, clock, nodeEnv, staticOtp, sync, issued, hist>>

\* when findOne has returned: otp = generateOTP(); otpExpiry = now + 10 min
ResendOtpGen(p) ==
  /\ Ready(p, "resendGen")
  /\ \E code \in generateOTP :
       Await(p, req[p],
             [loc[p] EXCEPT !.otp = Str(code), !.otpExpiry = clock + OTP_TTL, !.at = clock],
             "resendSave")
  /\ UNCHANGED <<users, nextId, admins, clock, nodeEnv, staticOtp, sync, issued, hist>>

ResendOtpSave(p) ==
  /\ Ready(p, "resendSave")
  /\ OtpSave(p, "OTP resent successfully", ResendOtpEcho(loc[p].otp))
  /\ UNCHANGED <<nextId, admins, clock, nodeEnv, staticOtp, sync, issued>>

(* ----------------------------- access guard ---------------------------- *)
\* what a client may put in the Authorization header: nothing, another
\* scheme, "Bearer" without a token, a token it was sent, or a token it
\* made up itself (any subject, never with our signature)
ForgedTokens == {[sub |-> id, exp |-> 2 * JWT_TTL] : id \in UserIds \cup {SeedAdminId}}

Headers ==
  {NoHeader, Bearer(NoToken, FALSE)}
    \cup {[scheme |-> "Basic", token |-> t, signed |-> TRUE] : t \in issued}
    \cup {Bearer(t, TRUE) : t \in issued}
    \cup {Bearer(t, FALSE) : t \in issued \cup ForgedTokens}

Unauthorized(m) == Response(401, m, Undef, NoToken)

\* variant: the token's subject is not looked up
protectWithoutLookup(h) ==
  IF ~HasToken(h) THEN Unauthorized("Not authorized to access this route")
  ELSE IF ~JwtVerify(h) THEN Unauthorized("Not authorized to access this route")
  ELSE NoResponse

\* protect(req, res, next): the response it sends, or NoResponse when it
\* calls next()
protect(h) ==
  IF ~HasToken(h) THEN Unauthorized("Not authorized to access this route")
  ELSE IF ~JwtVerify(h) THEN Unauthorized("Not authorized to access this route")
  ELSE IF FindById(h.token.sub) = NoDoc THEN Unauthorized("User not found")
  ELSE NoResponse

\* variant: the subject is looked up in the User collection
adminProtectUserStore(h) ==
  IF ~HasToken(h) THEN Unauthorized("Not authorized - Admin access required")
  ELSE IF ~JwtVerify(h) THEN Unauthorized("Not authorized - Invalid token")
  ELSE IF FindById(h.token.sub) = NoDoc
  THEN Response(403, "Access denied - Admin privileges required", Undef, NoToken)
  ELSE NoResponse

\* adminProtect(req, res, next): the same for the Admin collection
adminProtect(h) ==
  IF ~HasToken(h) THEN Unauthorized("Not authorized - Admin access required")
  ELSE IF ~JwtVerify(h) THEN Unauthorized("Not authorized - Invalid token")
  ELSE IF AdminFindById(h.token.sub) = NoDoc
  THEN Response(403, "Access denied - Admin privileges required", Undef, NoToken)
  ELSE NoResponse

\* GET /api/user/profile: protect, up to and including its User.findById
GetProfileStart(p, h) ==
  LET rq == [NoReq EXCEPT !.op = "getProfile", !.authorization = h]
  IN  /\ Free(p)
      /\ IF protect(h) # NoResponse
         THEN Respond(p, rq, NoLoc, protect(h))
         ELSE Await(p, rq, [NoLoc EXCEPT !.user = FindById(h.token.sub), !.next = TRUE],
                    "profileFind")
      /\ UNCHANGED <<users, nextId, admins, clock, nodeEnv, staticOtp, sync, issued, hist>>

\* the handler: User.findById(req.user._id).select('-otp -otpExpiry')
GetProfileFind(p) ==
  /\ Ready(p, "profileFind")
  /\ Respond(p, req[p], loc[p],
             WithUser(Response(200, "", Undef, NoToken),
                      SelectWithoutOtp(FindById(loc[p].user._id))))
  /\ UNCHANGED <<users, nextId, admins, clock, nodeEnv, staticOtp, sync, issued, hist>>

\* DELETE /api/user/:id: adminProtect, up to and including its Admin.findById
DeleteUserStart(p, h, id) ==
  LET rq == [NoReq EXCEPT !.op = "deleteUser", !.authorization = h, !.id = id]
  IN  /\ Free(p)
      /\ IF adminProtect(h) # NoResponse
         THEN Respond(p, rq, NoLoc, adminProtect(h))
         ELSE Await(p, rq, [NoLoc EXCEPT !.user = AdminFindById(h.token.sub), !.next = TRUE],
                    "deleteUser")
      /\ UNCHANGED <<users, nextId, admins, clock, nodeEnv, staticOtp, sync, issued, hist>>

\* the handler: User.findByIdAndDelete(req.params.id)
DeleteUserDo(p) ==
  LET id == req[p].id
  IN  /\ Ready(p, "deleteUser")
      /\ IF id \notin DOMAIN users
         THEN /\ Respond(p, req[p], loc[p], Response(404, "User not found", Undef, NoToken))
              /\ UNCHANGED <<users, hist>>
         ELSE /\ users' = [i \in DOMAIN users \ {id} |-> users[i]]
              /\ Respond(p, req[p], loc[p],
                         Response(200, "User deleted successfully", Undef, NoToken))
              /\ otpLog' = [otpLog EXCEPT ![id] = NoLog]
              /\ otpUses' = [otpUses EXCEPT ![id] = 0]
              /\ UNCHANGED readers
      /\ UNCHANGED <<nextId, admins, clock, nodeEnv, staticOtp, sync, issued>>

(* ------------------------------ admin login ---------------------------- *)
SeedEmail == "admin@laundry.com"
SeedPassword == "admin123"
Emails == {SeedEmail, "nobody@laundry.com", ""}
Passwords == {SeedPassword, "letmein", ""}

\* adminLogin up to and including `await Admin.findOne({ email })`
AdminLoginStart(p, email, password) ==
  LET rq == [NoReq EXCEPT !.op = "adminLogin", !.email = email, !.password = password]
  IN  /\ Free(p)
      /\ IF email = "" \/ password = ""
         THEN Respond(p, rq, NoLoc,
                      Response(400, "Please provide email and password", Undef, NoToken))
         ELSE IF AdminFindOne(email) = NoDoc
         THEN Respond(p, rq, NoLoc, Unauthorized("Invalid credentials"))
         ELSE Await(p, rq, [NoLoc EXCEPT !.user = AdminFindOne(email)], "adminLoginCheck")
      /\ UNCHANGED <<users, nextId, admins, clock, nodeEnv, staticOtp, sync, issued, hist>>

\* variant: the flag is not looked at
DeactivatedNever(admin) == FALSE

\* !admin.isActive
Deactivated(admin) == ~admin.isActive

\* bcrypt.compare, the isActive check, generateToken and the response
AdminLoginCheck(p) ==
  LET admin == loc[p].user
      token == generateToken(admin._id)
  IN  /\ Ready(p, "adminLoginCheck")
      /\ IF ~BcryptCompare(req[p].password, admin.password)
         THEN /\ Respond(p, req[p], loc[p], Unauthorized("Invalid credentials"))
              /\ UNCHANGED issued
         ELSE IF Deactivated(admin)
         THEN /\ Respond(p, req[p], loc[p], Unauthorized("Account is deactivated"))
              /\ UNCHANGED issued
         ELSE /\ Respond(p, req[p], loc[p], Response(200, "Login successful", Undef, token))
              /\ issued' = issued \cup {token}
      /\ UNCHANGED <<users, nextId, admins, clock, nodeEnv, staticOtp, sync, hist>>

(* ----------------------------- admin creation -------------------------- *)
\* values of req.body.name
Names == {"", "Eve"}

\* the _id the driver gives the next Admin document
NextAdminId == SeedAdminId + Cardinality(DOMAIN admins)

\* POST /api/auth/admin/create, a route without a guard: createAdmin up to
\* and including `await Admin.findOne({ email })`
CreateAdminStart(p, email, password, name) ==
  LET rq == [NoReq EXCEPT !.op = "createAdmin", !.email = email, !.password = password,
                          !.name = name]
  IN  /\ Free(p)
      /\ IF email = "" \/ password = "" \/ name = ""
         THEN Respond(p, rq, NoLoc,
                      Response(400, "Please provide all required fields", Undef, NoToken))
         ELSE IF AdminFindOne(email) # NoDoc
         THEN Respond(p, rq, NoLoc, Response(400, "Admin already exists", Undef, NoToken))
         ELSE Await(p, rq, NoLoc, "createAdmin")
      /\ UNCHANGED <<users, nextId, admins, clock, nodeEnv, staticOtp, sync, issued, hist>>

\* bcrypt.hash(password, 10), Admin.create({ email, password, name, role })
\* and the 201 response; email is `unique`, isActive defaults to true
CreateAdminDo(p) ==
  /\ Ready(p, "createAdmin")
  /\ IF AdminFindOne(req[p].email) # NoDoc
     THEN /\ Respond(p, req[p], loc[p], Response(500, "E11000 duplicate key error", Undef, NoToken))
          /\ UNCHANGED admins
     ELSE /\ admins' = admins @@ (NextAdminId :>
                          [email |-> req[p].email, password |-> BcryptHash(req[p].password),
                           isActive |-> TRUE])
          /\ Respond(p, req[p], [loc[p] EXCEPT !.user = [_id |-> NextAdminId]],
                     Response(201, "Admin created successfully", Undef, NoToken))
  /\ UNCHANGED <<users, nextId, clock, nodeEnv, staticOtp, sync, issued, hist>>

\* the isActive flag of an Admin document is set to false; no route does
\* it, it is done on the database
DeactivateAdmin(id) ==
  /\ \A q \in Procs : pc[q] # "done"
  /\ id \in DOMAIN admins
  /\ admins[id].isActive
  /\ admins' = [admins EXCEPT ![id].isActive = FALSE]
  /\ UNCHANGED <<users, nextId, clock, nodeEnv, staticOtp, sync, issued, pc, req, loc, resp, hist>>

(* ------------------------------ service routes ------------------------- *)
\* the service routes that write: POST /, PUT /:id, DELETE /:id,
\* DELETE /:id/permanent, PATCH /:id/toggle
ServiceWrites ==
  {"createService", "updateService", "deleteService", "permanentDeleteService",
   "toggleServiceStatus"}

\* router.<method>(path, protect, adminProtect, handler): the guards run in
\* this order and the first that answers ends the request
ServiceGuards(h) == IF protect(h) # NoResponse THEN protect(h) ELSE adminProtect(h)

\* a request to a service write route, up to the handler
ServiceWriteStart(p, h, route) ==
  LET rq == [NoReq EXCEPT !.op = route, !.authorization = h]
  IN  /\ Free(p)
      /\ IF ServiceGuards(h) # NoResponse
         THEN Respond(p, rq, NoLoc, ServiceGuards(h))
         ELSE Await(p, rq, [NoLoc EXCEPT !.user = AdminFindById(h.token.sub), !.next = TRUE],
                    "serviceHandler")
      /\ UNCHANGED <<users, nextId, admins, clock, nodeEnv, staticOtp, sync, issued, hist>>

(* ----------------------------- contact sync ---------------------------- *)
\* the sync routes are called by signed-in clients, or without a token
SyncHeaders == {NoHeader} \cup {Bearer(t, TRUE) : t \in issued}

\* res.status(s).json({ success: false, message })
SyncFailure(s, m) == WithData(Response(s, m, Undef, NoToken), [NoData EXCEPT !.success = FALSE])

\* for (let i = 0; i < Math.min(3, contacts.length); i++)
LOGGED_ITEMS == 3

\* the logging loop reads contacts[i].name: a TypeError when the item is null
LoggingThrows(items) ==
  \E i \in 1..Len(items) : i <= LOGGED_ITEMS /\ items[i].t = "null"

\* contacts.map(contact => ... contact.phoneNumber ...) throws on a null
\* item; Contact.bulkWrite casts every update before it sends any and
\* rejects with a CastError for a name that is not a string
BulkOpsThrow(items) ==
  \E i \in 1..Len(items) : items[i].t = "null" \/ items[i].name = NameObject

\* user.name || 'Me (Own Number)': the documents of this model have no name
OwnName == "Me (Own Number)"

\* variant: insertion without a look for the row (no upsert filter)
ContactMatchNothing(uid, ph) == {}

\* the rows the filter { userId, phoneNumber } of an updateOne matches
ContactMatch(uid, ph) == {r \in contacts : r.userId = uid /\ r.phoneNumber = ph}

\* Contact.countDocuments({ userId }) and the rows counted
ContactsOf(rows, uid) == {r \in rows : r.userId = uid}

\* variant: the collection has no unique index
ContactIndexAbsent(uid, ph) == TRUE

\* contactSchema.index({ userId: 1, phoneNumber: 1 }, { unique: true }): the
\* index accepts the insertion of a row with this key
ContactIndexAccepts(uid, ph) ==
  ~\E r \in contacts : r.userId = uid /\ r.phoneNumber = ph

\* the _id of a new row
NewRowId(rows) == CHOOSE n \in 1..(Cardinality(rows) + 1) : \A r \in rows : r._id # n

\* syncContacts behind protect, up to and including `await User.findById(userId)`
SyncContactsRoute(p, h, c, own) ==
  LET rq == [NoReq EXCEPT !.op = "syncContacts", !.authorization = h, !.contacts = c,
                          !.userPhoneNumber = own]
  IN  /\ IF protect(h) # NoResponse
         THEN Respond(p, rq, NoLoc, protect(h))
         ELSE IF c.t # "array"
         THEN Respond(p, rq, NoLoc, SyncFailure(400, "Invalid contacts data"))
         ELSE IF Len(c.v) = 0
         THEN Respond(p, rq, NoLoc, SyncFailure(200, "No contacts to sync"))
         ELSE IF LoggingThrows(c.v)
         THEN Respond(p, rq, NoLoc, SyncFailure(500, "Failed to sync contacts"))
         ELSE Await(p, rq, [NoLoc EXCEPT !.user = FindById(h.token.sub), !.next = TRUE],
                    "contactsFlag")
      /\ UNCHANGED <<users, nextId, admins, clock, nodeEnv, staticOtp, sync, issued, hist>>

\* a new request
SyncContactsStart(p, h, c, own) == Free(p) /\ SyncContactsRoute(p, h, c, own)

\* the client that was answered 200 submits the identical request again
\* (lastSync keeps what the answered one left)
SyncContactsAgain(p) ==
  /\ pc[p] = "done"
  /\ lastSync # NoSync
  /\ lastSync.runs < MaxRuns
  /\ SyncContactsRoute(p, req[p].authorization, req[p].contacts, req[p].userPhoneNumber)

\* the 404, the push of the own number and
\* `await User.findByIdAndUpdate(userId, { contactPermission: true })`
SyncContactsFlag(p) ==
  /\ Ready(p, "contactsFlag")
  /\ IF loc[p].user = NoDoc
     THEN /\ Respond(p, req[p], loc[p], SyncFailure(404, "User not found"))
          /\ UNCHANGED users
     ELSE LET uid == loc[p].user._id
              own == req[p].userPhoneNumber
              list == IF PhoneFalsy(own) THEN req[p].contacts.v
                      ELSE Append(req[p].contacts.v, ContactItem(OwnName, own))
          IN  /\ Await(p, req[p], [loc[p] EXCEPT !.list = list], "contactsBulk")
              /\ users' = IF uid \in DOMAIN users
                          THEN [users EXCEPT ![uid].contactPermission = TRUE]
                          ELSE users
  /\ UNCHANGED <<nextId, admins, clock, nodeEnv, staticOtp, sync, issued, hist>>

\* contacts.map(...) with its `new Date()`, and Contact.bulkWrite(bulkOps) up
\* to the sending of the operations
SyncContactsBulkWrite(p) ==
  /\ Ready(p, "contactsBulk")
  /\ IF BulkOpsThrow(loc[p].list)
     THEN Respond(p, req[p], loc[p], SyncFailure(500, "Failed to sync contacts"))
     ELSE Await(p, req[p], [loc[p] EXCEPT !.at = clock], "contactsOp")
  /\ UNCHANGED <<users, nextId, admins, clock, nodeEnv, staticOtp, sync, issued, hist>>

\* the server runs the next updateOne of the ordered batch: a matching row
\* takes the $set; without one the upsert goes on to insert
ContactsUpsert(p) ==
  /\ Ready(p, "contactsOp")
  /\ loc[p].i < Len(loc[p].list)
  /\ LET c == loc[p].list[loc[p].i + 1]
         m == ContactMatch(loc[p].user._id, c.phoneNumber)
     IN  IF m # {}
         THEN LET r == CHOOSE x \in m : TRUE
                  r2 == [r EXCEPT !.name = c.name, !.syncedAt = loc[p].at]
              IN  /\ contacts' = (contacts \ {r}) \cup {r2}
                  /\ loc' = [loc EXCEPT ![p].i = @ + 1,
                                        ![p].updated = @ + (IF r2 # r THEN 1 ELSE 0)]
                  /\ UNCHANGED pc
         ELSE /\ pc' = [pc EXCEPT ![p] = "contactsInsert"]
              /\ UNCHANGED <<contacts, loc>>
  /\ UNCHANGED <<users, nextId, admins, clock, nodeEnv, staticOtp, issued, req, resp, hist, shop,
                 smsRows, lastSync>>

\* the insertion of an upsert that matched nothing.  When the unique index
\* refuses it, because the key was inserted in between, the server either
\* runs the upsert again (retry) or fails the operation with E11000, which
\* stops the ordered batch and rejects bulkWrite.
ContactsInsert(p) ==
  /\ Ready(p, "contactsInsert")
  /\ LET c == loc[p].list[loc[p].i + 1]
         uid == loc[p].user._id
     IN  IF ContactIndexAccepts(uid, c.phoneNumber)
         THEN /\ contacts' = contacts \cup
                     {[_id |-> NewRowId(contacts), userId |-> uid,
                       phoneNumber |-> c.phoneNumber, name |-> c.name,
                       syncedAt |-> loc[p].at]}
              /\ pc' = [pc EXCEPT ![p] = "contactsOp"]
              /\ loc' = [loc EXCEPT ![p].i = @ + 1, ![p].inserted = @ + 1]
              /\ UNCHANGED <<req, resp>>
         ELSE /\ \E retry \in BOOLEAN :
                   IF retry
                   THEN Await(p, req[p], loc[p], "contactsOp")
                   ELSE Respond(p, req[p], loc[p],
                                SyncFailure(500, "Failed to sync contacts"))
              /\ UNCHANGED contacts
  /\ UNCHANGED <<users, nextId, admins, clock, nodeEnv, staticOtp, issued, hist, shop,
                 smsRows, lastSync>>

\* the rows of a user without their syncedAt
ContactView(rows, uid) ==
  {[_id |-> r._id, phoneNumber |-> r.phoneNumber, name |-> r.name] : r \in ContactsOf(rows, uid)}

\* bulkWrite has resolved: Contact.countDocuments({ userId }) and the 200
\* (the Contact.find(...).limit(3) before it is only logged)
SyncContactsCount(p) ==
  /\ Ready(p, "contactsOp")
  /\ loc[p].i = Len(loc[p].list)
  /\ LET uid == loc[p].user._id
     IN  /\ Respond(p, req[p], loc[p],
                    WithData(Response(200, "Contacts synced successfully", Undef, NoToken),
                             [NoData EXCEPT !.inserted = loc[p].inserted,
                                            !.updated = loc[p].updated,
                                            !.total = Len(loc[p].list),
                                            !.totalInDb = Cardinality(ContactsOf(contacts, uid))]))
         /\ lastSync' = [userId |-> uid, contacts |-> req[p].contacts,
                         userPhoneNumber |-> req[p].userPhoneNumber,
                         rows |-> ContactView(contacts, uid), runs |-> lastSync.runs + 1]
  /\ UNCHANGED <<users, nextId, admins, clock, nodeEnv, staticOtp, issued, hist, shop,
                 contacts, smsRows>>

(* -------------------------------- SMS sync ----------------------------- *)
\* the rows with this (userId, smsId)
SmsMatch(uid, id) == {r \in smsRows : r.userId = uid /\ r.smsId = id}

\* Sms.findOne({ userId, smsId: id }): whether a document came back.  For an
\* item without id the filter is { userId, smsId: undefined }; depending on
\* the Mongoose / driver version the undefined key is sent as null, which
\* matches no row (smsId is required), or is left out, which matches any row
\* of the user (dropped).
SmsFindOne(uid, id, dropped) ==
  IF id # "" THEN SmsMatch(uid, id) # {}
  ELSE dropped /\ \E r \in smsRows : r.userId = uid

\* variant: the collection has no unique index
SmsIndexAbsent(uid, id) == TRUE

\* smsSchema.index({ userId: 1, smsId: 1 }, { unique: true }): the index
\* accepts the insertion of a row with this key
SmsIndexAccepts(uid, id) == SmsMatch(uid, id) = {}

\* the schema's validation of a new document: smsId, address, body, date and
\* type are required
SmsValid(item) == item.id # "" /\ item.complete

\* the insertion of a validated document
SmsInsert(uid, id) ==
  smsRows' = smsRows \cup {[_id |-> NewRowId(smsRows), userId |-> uid, smsId |-> id]}

\* req.body.userId of the SMS routes; NoId stands for its absence
SmsUserIds == SyncUsers \cup {NoId}

\* syncSms behind protect, up to and including `await Sms.findOne(...)`
SyncSmsStart(p, h, uid, item) ==
  LET rq == [NoReq EXCEPT !.op = "syncSms", !.authorization = h, !.userId = uid,
                          !.sms = item]
  IN  /\ Free(p)
      /\ IF protect(h) # NoResponse
         THEN Respond(p, rq, NoLoc, protect(h))
         ELSE IF uid = NoId \/ item.t # "object"
         THEN Respond(p, rq, NoLoc, SyncFailure(400, "userId and smsData are required"))
         ELSE \E dropped \in BOOLEAN :
                Await(p, rq, [NoLoc EXCEPT !.found = SmsFindOne(uid, item.id, dropped),
                                           !.next = TRUE], "smsSave")
      /\ UNCHANGED <<users, nextId, admins, clock, nodeEnv, staticOtp, sync, issued, hist>>

\* the 200 for an existing row, or `new Sms(...)` and `await sms.save()`
SyncSmsSave(p) ==
  /\ Ready(p, "smsSave")
  /\ LET uid == req[p].userId
         item == req[p].sms
     IN  IF loc[p].found
         THEN /\ Respond(p, req[p], loc[p], Response(200, "SMS already synced", Undef, NoToken))
              /\ UNCHANGED smsRows
         ELSE IF ~SmsValid(item) \/ ~SmsIndexAccepts(uid, item.id)
         THEN /\ Respond(p, req[p], loc[p], SyncFailure(500, "Failed to sync SMS"))
              /\ UNCHANGED smsRows
         ELSE /\ Respond(p, req[p], loc[p], Response(201, "SMS synced successfully", Undef, NoToken))
              /\ SmsInsert(uid, item.id)
  /\ UNCHANGED <<users, nextId, admins, clock, nodeEnv, staticOtp, issued, hist, shop,
                 contacts, lastSync>>

\* syncSmsBatch behind protect, up to the loop
SyncSmsBatchStart(p, h, uid, b) ==
  LET rq == [NoReq EXCEPT !.op = "syncSmsBatch", !.authorization = h, !.userId = uid,
                          !.smsData = b]
  IN  /\ Free(p)
      /\ IF protect(h) # NoResponse
         THEN Respond(p, rq, NoLoc, protect(h))
         ELSE IF uid = NoId \/ b.t # "array"
         THEN Respond(p, rq, NoLoc, SyncFailure(400, "userId and smsData array are required"))
         ELSE Await(p, rq, [NoLoc EXCEPT !.next = TRUE, !.before = Cardinality(smsRows)],
                    "smsBatchFind")
      /\ UNCHANGED <<users, nextId, admins, clock, nodeEnv, staticOtp, sync, issued, hist>>

\* the next item of the loop, up to and including `await Sms.findOne(...)`.
\* For an item that is null, `sms.id` throws a TypeError inside the inner
\* try; its catch evaluates `sms.id` again and throws out of the loop into
\* the outer catch, which answers 500.
SmsBatchFind(p) ==
  /\ Ready(p, "smsBatchFind")
  /\ loc[p].i < Len(req[p].smsData.v)
  /\ LET uid == req[p].userId
         item == req[p].smsData.v[loc[p].i + 1]
     IN  IF item.t = "null"
         THEN Respond(p, req[p], loc[p], SyncFailure(500, "Failed to sync SMS batch"))
         ELSE \E dropped \in BOOLEAN :
                Await(p, req[p],
                      [loc[p] EXCEPT !.found = SmsFindOne(uid, item.id, dropped),
                                     !.had = @ + (IF SmsMatch(uid, item.id) # {} THEN 1 ELSE 0)],
                      "smsBatchCreate")
  /\ UNCHANGED <<users, nextId, admins, clock, nodeEnv, staticOtp, sync, issued, hist>>

\* skippedCount++ for an existing row; otherwise `await Sms.create(...)` and
\* syncedCount++, or errors.push(...) when create rejects (ValidationError,
\* or E11000 from the unique index)
SmsBatchCreate(p) ==
  /\ Ready(p, "smsBatchCreate")
  /\ LET uid == req[p].userId
         item == req[p].smsData.v[loc[p].i + 1]
     IN  IF loc[p].found
         THEN /\ loc' = [loc EXCEPT ![p].i = @ + 1, ![p].skipped = @ + 1]
              /\ UNCHANGED smsRows
         ELSE IF ~SmsValid(item) \/ ~SmsIndexAccepts(uid, item.id)
         THEN /\ loc' = [loc EXCEPT ![p].i = @ + 1, ![p].errors = Append(@, item.id)]
              /\ UNCHANGED smsRows
         ELSE /\ loc' = [loc EXCEPT ![p].i = @ + 1, ![p].synced = @ + 1]
              /\ SmsInsert(uid, item.id)
  /\ pc' = [pc EXCEPT ![p] = "smsBatchFind"]
  /\ UNCHANGED <<users, nextId, admins, clock, nodeEnv, staticOtp, issued, hist, shop,
                 req, resp, contacts, lastSync>>

\* the loop has ended: res.status(200) with the counters
SmsBatchDone(p) ==
  /\ Ready(p, "smsBatchFind")
  /\ loc[p].i = Len(req[p].smsData.v)
  /\ Respond(p, req[p], loc[p],
             WithData(Response(200, "SMS batch sync completed", Undef, NoToken),
                      [NoData EXCEPT !.synced = loc[p].synced,
                                     !.skipped = loc[p].skipped,
                                     !.errors = Len(loc[p].errors),
                                     !.errorDetails = loc[p].errors]))
  /\ UNCHANGED <<users, nextId, admins, clock, nodeEnv, staticOtp, sync, issued, hist>>

(* ------------------------ contact deletion, profile -------------------- *)
\* DELETE /api/contacts/my-contacts: protect, up to and including its
\* User.findById
DeleteMyContactsStart(p, h) ==
  LET rq == [NoReq EXCEPT !.op = "deleteMyContacts", !.authorization = h]
  IN  /\ Free(p)
      /\ IF protect(h) # NoResponse
         THEN Respond(p, rq, NoLoc, protect(h))
         ELSE Await(p, rq, [NoLoc EXCEPT !.user = FindById(h.token.sub), !.next = TRUE],
                    "contactsDelete")
      /\ UNCHANGED <<users, nextId, admins, clock, nodeEnv, staticOtp, sync, issued, hist>>

\* await Contact.deleteMany({ userId })
DeleteMyContactsMany(p) ==
  /\ Ready(p, "contactsDelete")
  /\ contacts' = contacts \ ContactsOf(contacts, loc[p].user._id)
  /\ Await(p, req[p], loc[p], "contactsUnflag")
  /\ UNCHANGED <<users, nextId, admins, clock, nodeEnv, staticOtp, issued, hist, shop,
                 smsRows, lastSync>>

\* await User.findByIdAndUpdate(userId, { contactPermission: false }) and the 200
DeleteMyContactsFlag(p) ==
  /\ Ready(p, "contactsUnflag")
  /\ LET uid == loc[p].user._id
     IN  users' = IF uid \in DOMAIN users
                  THEN [users EXCEPT ![uid].contactPermission = FALSE]
                  ELSE users
  /\ Respond(p, req[p], loc[p],
             Response(200, "All contacts deleted successfully", Undef, NoToken))
  /\ UNCHANGED <<nextId, admins, clock, nodeEnv, staticOtp, sync, issued, hist>>

\* req.body.contactPermission of PUT /api/user/profile
PermissionValues == {Undef, Bool(TRUE), Bool(FALSE)}

\* PUT /api/user/profile: protect, up to and including its User.findById
UpdateProfileStart(p, h, cp) ==
  LET rq == [NoReq EXCEPT !.op = "updateProfile", !.authorization = h,
                          !.contactPermission = cp]
  IN  /\ Free(p)
      /\ IF protect(h) # NoResponse
         THEN Respond(p, rq, NoLoc, protect(h))
         ELSE Await(p, rq, [NoLoc EXCEPT !.user = FindById(h.token.sub), !.next = TRUE],
                    "profileUpdate")
      /\ UNCHANGED <<users, nextId, admins, clock, nodeEnv, staticOtp, sync, issued, hist>>

\* updateData and User.findByIdAndUpdate(req.user._id, updateData, { new: true })
\* .select('-otp -otpExpiry'): the fields the body defines are written
UpdateProfileDo(p) ==
  /\ Ready(p, "profileUpdate")
  /\ LET uid == loc[p].user._id
         cp == req[p].contactPermission
     IN  /\ users' = IF uid \in DOMAIN users /\ cp # Undef
                     THEN [users EXCEPT ![uid].contactPermission = (cp = Bool(TRUE))]
                     ELSE users
         /\ Respond(p, req[p], loc[p],
                    WithUser(Response(200, "Profile updated successfully", Undef, NoToken),
                             IF uid \in DOMAIN users
                             THEN SelectWithoutOtp([_id |-> uid] @@ users'[uid])
                             ELSE NoDoc))
  /\ UNCHANGED <<nextId, admins, clock, nodeEnv, staticOtp, sync, issued, hist>>

(* -------------------------------- orders ------------------------------- *)
\* orderSchema.status: enum ['pending', 'picked', 'in-process', 'delivered',
\* 'cancelled'], default 'pending'
OrderStatuses ==
  {Str("pending"), Str("picked"), Str("in-process"), Str("delivered"), Str("cancelled")}
DefaultStatus == Str("pending")

\* Mongoose casts the id of findById / findByIdAndUpdate to an ObjectId;
\* a word such as "all" is rejected with a CastError, which the catch of
\* every handler answers with 500
CastsToObjectId(seg) == seg.t = "objectid"
CastError == Response(500, "Cast to ObjectId failed", Undef, NoToken)

\* Order.findById(id) for an id that casts
OrderFindById(seg) ==
  IF \E id \in DOMAIN orders : Oid(id) = seg
  THEN LET id == CHOOSE i \in DOMAIN orders : Oid(i) = seg
       IN  [_id |-> id] @@ orders[id]
  ELSE NoDoc

OrderNotFound == Response(404, "Order not found", Undef, NoToken)

\* Order.create({ userId, ..., status }): orders are never deleted, so the
\* n-th order has _id n
NewOrder(uid, status) == [userId |-> uid, status |-> status]
OrderCreate(uid, status) ==
  orders' = orders @@ ((Cardinality(DOMAIN orders) + 1) :> NewOrder(uid, status))

\* handlers that are about to create an order
PendingOrders ==
  Cardinality({q \in Procs : pc[q] \in {"orderCreate", "bookingService", "bookingUser",
                                         "bookingCreate"}})

\* order.status = status; await order.save(): the path is sent when the
\* value differs from the loaded one
OrderSave(doc, status) ==
  orders' = IF status # doc.status THEN [orders EXCEPT ![doc._id].status = status]
            ELSE orders

\* the stats of GET /api/orders/all and /stats
CountStatus(st) == Cardinality({id \in DOMAIN orders : orders[id].status = st})
OrderStats ==
  [totalOrders |-> Cardinality(DOMAIN orders), delivered |-> CountStatus(Str("delivered")),
   cancelled |-> CountStatus(Str("cancelled")), pending |-> CountStatus(Str("pending")),
   picked |-> CountStatus(Str("picked")), inProcess |-> CountStatus(Str("in-process"))]

\* POST /api/orders: protect, the check of the required body fields
\* (complete: serviceId, serviceName, pickupDate, pickupTime and address are
\* all given)
CreateOrderStart(p, h, complete) ==
  LET rq == [NoReq EXCEPT !.op = "createOrder", !.authorization = h, !.complete = complete]
      lc == [NoLoc EXCEPT !.user = FindById(h.token.sub), !.next = TRUE]
  IN  /\ Free(p)
      /\ IF protect(h) # NoResponse
         THEN Respond(p, rq, NoLoc, protect(h))
         ELSE IF ~complete
         THEN Respond(p, rq, lc,
                      Response(400, "Please provide all required fields", Undef, NoToken))
         ELSE /\ Cardinality(DOMAIN orders) + PendingOrders < MaxOrders
              /\ Await(p, rq, lc, "orderCreate")
      /\ UNCHANGED <<users, nextId, admins, clock, nodeEnv, staticOtp, sync, issued, hist>>

\* await Order.create({ userId: req.user._id, ... }) without a status, and
\* the 201
CreateOrderDo(p) ==
  /\ Ready(p, "orderCreate")
  /\ OrderCreate(loc[p].user._id, DefaultStatus)
  /\ Respond(p, req[p], loc[p], Response(201, "Order created successfully", Undef, NoToken))
  /\ UNCHANGED <<users, nextId, admins, clock, nodeEnv, staticOtp, issued, hist,
                 contacts, smsRows, lastSync, services>>

\* the router of /api/orders, GET: its routes in the order they are
\* registered
OrderGetRoutes ==
  <<[path |-> "/:id", handler |-> "getOrderById"],
    [path |-> "/all", handler |-> "getAllOrders"],
    [path |-> "/stats", handler |-> "getOrderStats"]>>

\* a route path matches a one-segment URL: a parameter matches any segment
RouteMatches(path, seg) ==
  \/ path = "/:id"
  \/ path = "/all" /\ seg = Word("all")
  \/ path = "/stats" /\ seg = Word("stats")

\* Express runs the first registered route that matches
Dispatch(routes, seg) ==
  LET k == CHOOSE i \in 1..Len(routes) :
             /\ RouteMatches(routes[i].path, seg)
             /\ \A j \in 1..(i - 1) : ~RouteMatches(routes[j].path, seg)
  IN  routes[k].handler

\* GET /api/orders/<seg>: the dispatch and protect
GetOrderStart(p, h, seg) ==
  LET rq == [NoReq EXCEPT !.op = "getOrder", !.authorization = h, !.segment = seg]
      lc == [NoLoc EXCEPT !.user = FindById(h.token.sub), !.next = TRUE,
                          !.handler = Dispatch(OrderGetRoutes, seg)]
  IN  /\ Free(p)
      /\ IF protect(h) # NoResponse
         THEN Respond(p, rq, [NoLoc EXCEPT !.handler = Dispatch(OrderGetRoutes, seg)],
                      protect(h))
         ELSE Await(p, rq, lc, "orderGet")
      /\ UNCHANGED <<users, nextId, admins, clock, nodeEnv, staticOtp, sync, issued, hist>>

\* the handler: Order.findById(req.params.id) of '/:id'; Order.find() with
\* .populate('userId', 'name phoneNumber email') and the stats of '/all';
\* Order.find() and the stats of '/stats'
GetOrderFind(p) ==
  /\ Ready(p, "orderGet")
  /\ IF loc[p].handler = "getOrderById"
     THEN IF ~CastsToObjectId(req[p].segment)
          THEN Respond(p, req[p], loc[p], CastError)
          ELSE IF OrderFindById(req[p].segment) = NoDoc
          THEN Respond(p, req[p], loc[p], OrderNotFound)
          ELSE Respond(p, req[p], [loc[p] EXCEPT !.order = OrderFindById(req[p].segment)],
                       Response(200, "", Undef, NoToken))
     ELSE IF loc[p].handler = "getAllOrders"
     THEN Respond(p, req[p], loc[p],
                  WithOrders(Response(200, "", Undef, NoToken), OrderStats,
                             {SelectWithoutOtp(FindById(orders[id].userId)) :
                                id \in DOMAIN orders} \ {NoDoc}))
     ELSE Respond(p, req[p], loc[p],
                  WithOrders(Response(200, "", Undef, NoToken), OrderStats, {}))
  /\ UNCHANGED <<users, nextId, admins, clock, nodeEnv, staticOtp, sync, issued, hist>>

\* PATCH /api/orders/:id/cancel: protect
CancelOrderStart(p, h, seg) ==
  LET rq == [NoReq EXCEPT !.op = "cancelOrder", !.authorization = h, !.segment = seg]
  IN  /\ Free(p)
      /\ IF protect(h) # NoResponse
         THEN Respond(p, rq, NoLoc, protect(h))
         ELSE Await(p, rq, [NoLoc EXCEPT !.user = FindById(h.token.sub), !.next = TRUE],
                    "cancelFind")
      /\ UNCHANGED <<users, nextId, admins, clock, nodeEnv, staticOtp, sync, issued, hist>>

\* variant: delivered orders can be cancelled
CannotCancelCancelledOnly(order) == order.status = Str("cancelled")

\* order.status === 'delivered' || order.status === 'cancelled'
CannotCancel(order) == order.status = Str("delivered") \/ order.status = Str("cancelled")

\* variant: the owner is not compared
NotOwnerNever(order, user) == FALSE

\* order.userId.toString() !== req.user._id.toString()
NotOwner(order, user) == order.userId # user._id

\* await Order.findById(req.params.id) and the checks of the owner and of the
\* status
CancelOrderFind(p) ==
  LET order == OrderFindById(req[p].segment)
  IN  /\ Ready(p, "cancelFind")
      /\ IF ~CastsToObjectId(req[p].segment)
         THEN Respond(p, req[p], loc[p], CastError)
         ELSE IF order = NoDoc
         THEN Respond(p, req[p], loc[p], OrderNotFound)
         ELSE IF NotOwner(order, loc[p].user)
         THEN Respond(p, req[p], [loc[p] EXCEPT !.order = order],
                      Response(403, "Not authorized to cancel this order", Undef, NoToken))
         ELSE IF CannotCancel(order)
         THEN Respond(p, req[p], [loc[p] EXCEPT !.order = order],
                      Response(400, "Cannot cancel order with status", Undef, NoToken))
         ELSE Await(p, req[p], [loc[p] EXCEPT !.order = order], "cancelSave")
      /\ UNCHANGED <<users, nextId, admins, clock, nodeEnv, staticOtp, sync, issued, hist>>

\* order.status = 'cancelled'; await order.save(), and the 200
CancelOrderSave(p) ==
  /\ Ready(p, "cancelSave")
  /\ OrderSave(loc[p].order, Str("cancelled"))
  /\ Respond(p, req[p], loc[p], Response(200, "Order cancelled successfully", Undef, NoToken))
  /\ UNCHANGED <<users, nextId, admins, clock, nodeEnv, staticOtp, issued, hist,
                 contacts, smsRows, lastSync, services>>

\* variant: every string is taken for a status
ValidStatusAny(status) == status.t = "string"

\* validStatuses.includes(status)
ValidStatus(status) == status \in OrderStatuses

\* PATCH /api/orders/:id/status: protect and the checks of req.body.status
PatchStatusStart(p, h, seg, status) ==
  LET rq == [NoReq EXCEPT !.op = "patchStatus", !.authorization = h, !.segment = seg,
                          !.status = status]
      lc == [NoLoc EXCEPT !.user = FindById(h.token.sub), !.next = TRUE]
  IN  /\ Free(p)
      /\ IF protect(h) # NoResponse
         THEN Respond(p, rq, NoLoc, protect(h))
         ELSE IF Falsy(status)
         THEN Respond(p, rq, lc, Response(400, "Status is required", Undef, NoToken))
         ELSE IF ~ValidStatus(status)
         THEN Respond(p, rq, lc, Response(400, "Invalid status value", Undef, NoToken))
         ELSE Await(p, rq, lc, "statusFind")
      /\ UNCHANGED <<users, nextId, admins, clock, nodeEnv, staticOtp, sync, issued, hist>>

\* await Order.findById(req.params.id)
PatchStatusFind(p) ==
  LET order == OrderFindById(req[p].segment)
  IN  /\ Ready(p, "statusFind")
      /\ IF ~CastsToObjectId(req[p].segment)
         THEN Respond(p, req[p], loc[p], CastError)
         ELSE IF order = NoDoc
         THEN Respond(p, req[p], loc[p], OrderNotFound)
         ELSE Await(p, req[p], [loc[p] EXCEPT !.order = order], "statusSave")
      /\ UNCHANGED <<users, nextId, admins, clock, nodeEnv, staticOtp, sync, issued, hist>>

\* order.status = status; await order.save(), and the 200
PatchStatusSave(p) ==
  /\ Ready(p, "statusSave")
  /\ OrderSave(loc[p].order, req[p].status)
  /\ Respond(p, req[p], loc[p],
             Response(200, "Order status updated successfully", Undef, NoToken))
  /\ UNCHANGED <<users, nextId, admins, clock, nodeEnv, staticOtp, issued, hist,
                 contacts, smsRows, lastSync, services>>

(* ------------------------------- bookings ------------------------------ *)
\* Service.findById(id) for an id that casts
ServiceFindById(seg) ==
  IF \E r \in services : Oid(r._id) = seg
  THEN CHOOSE r \in services : Oid(r._id) = seg
  ELSE NoDoc

\* POST /api/bookings: protect and createBooking up to its Service.findById
\* (complete: serviceId, pickupDate and pickupTime are given)
CreateBookingStart(p, h, sid, complete) ==
  LET rq == [NoReq EXCEPT !.op = "createBooking", !.authorization = h, !.serviceId = sid,
                          !.complete = complete]
      lc == [NoLoc EXCEPT !.user = FindById(h.token.sub), !.next = TRUE]
  IN  /\ Free(p)
      /\ IF protect(h) # NoResponse
         THEN Respond(p, rq, NoLoc, protect(h))
         ELSE IF ~complete
         THEN Respond(p, rq, lc,
                      Response(400, "Please provide all required fields", Undef, NoToken))
         ELSE /\ Cardinality(DOMAIN orders) + PendingOrders < MaxOrders
              /\ Await(p, rq, lc, "bookingService")
      /\ UNCHANGED <<users, nextId, admins, clock, nodeEnv, staticOtp, sync, issued, hist>>

\* const service = await Service.findById(serviceId)
CreateBookingService(p) ==
  /\ Ready(p, "bookingService")
  /\ IF ~CastsToObjectId(req[p].serviceId)
     THEN Respond(p, req[p], loc[p], CastError)
     ELSE IF ServiceFindById(req[p].serviceId) = NoDoc
     THEN Respond(p, req[p], loc[p], Response(404, "Service not found", Undef, NoToken))
     ELSE Await(p, req[p], [loc[p] EXCEPT !.service = ServiceFindById(req[p].serviceId)],
                "bookingUser")
  /\ UNCHANGED <<users, nextId, admins, clock, nodeEnv, staticOtp, sync, issued, hist>>

\* const user = await User.findById(req.user._id)
CreateBookingUser(p) ==
  /\ Ready(p, "bookingUser")
  /\ Await(p, req[p], [loc[p] EXCEPT !.user = FindById(loc[p].user._id)], "bookingCreate")
  /\ UNCHANGED <<users, nextId, admins, clock, nodeEnv, staticOtp, sync, issued, hist>>

\* await Order.create({ ..., address: address || user.address, ...,
\* status: 'pending' }) and the 201; user.address of null throws
CreateBookingCreate(p) ==
  /\ Ready(p, "bookingCreate")
  /\ IF loc[p].user = NoDoc
     THEN /\ Respond(p, req[p], loc[p],
                     Response(500, "Cannot read properties of null", Undef, NoToken))
          /\ UNCHANGED orders
     ELSE /\ OrderCreate(loc[p].user._id, Str("pending"))
          /\ Respond(p, req[p], loc[p],
                     Response(201, "Booking created successfully", Undef, NoToken))
  /\ UNCHANGED <<users, nextId, admins, clock, nodeEnv, staticOtp, issued, hist,
                 contacts, smsRows, lastSync, services>>

\* PUT /api/bookings/:orderId: protect
UpdateOrderStatusStart(p, h, seg, status) ==
  LET rq == [NoReq EXCEPT !.op = "updateOrderStatus", !.authorization = h,
                          !.segment = seg, !.status = status]
  IN  /\ Free(p)
      /\ IF protect(h) # NoResponse
         THEN Respond(p, rq, NoLoc, protect(h))
         ELSE Await(p, rq, [NoLoc EXCEPT !.user = FindById(h.token.sub), !.next = TRUE],
                    "bookingUpdate")
      /\ UNCHANGED <<users, nextId, admins, clock, nodeEnv, staticOtp, sync, issued, hist>>

\* Order.findByIdAndUpdate(orderId, { status }, { new: true }): the update
\* is cast to the schema's String, the enum validator does not run
\* (runValidators is not set).  An undefined status is dropped from the
\* update or written as null, depending on the Mongoose version.
UpdateOrderStatusDo(p) ==
  LET order == OrderFindById(req[p].segment)
      status == req[p].status
  IN  /\ Ready(p, "bookingUpdate")
      /\ IF ~CastsToObjectId(req[p].segment)
         THEN /\ Respond(p, req[p], loc[p], CastError)
              /\ UNCHANGED orders
         ELSE IF order = NoDoc
         THEN /\ Respond(p, req[p], loc[p], OrderNotFound)
              /\ UNCHANGED orders
         ELSE /\ \E dropped \in BOOLEAN :
                   orders' = IF status # Undef
                             THEN [orders EXCEPT ![order._id].status = status]
                             ELSE IF dropped THEN orders
                             ELSE [orders EXCEPT ![order._id].status = Null]
              /\ Respond(p, req[p], [loc[p] EXCEPT !.order = order],
                         Response(200, "Order status updated", Undef, NoToken))
      /\ UNCHANGED <<users, nextId, admins, clock, nodeEnv, staticOtp, issued, hist,
                     contacts, smsRows, lastSync, services>>

\* GET /api/bookings/all: protect
GetAllBookingsStart(p, h) ==
  LET rq == [NoReq EXCEPT !.op = "getAllBookings", !.authorization = h]
  IN  /\ Free(p)
      /\ IF protect(h) # NoResponse
         THEN Respond(p, rq, NoLoc, protect(h))
         ELSE Await(p, rq, [NoLoc EXCEPT !.user = FindById(h.token.sub), !.next = TRUE],
                    "bookingsAll")
      /\ UNCHANGED <<users, nextId, admins, clock, nodeEnv, staticOtp, sync, issued, hist>>

\* variant: the populated users are read without their OTP fields
PopulateUserIdSelected(id) == SelectWithoutOtp(FindById(orders[id].userId))

\* .populate('userId'): the whole User document of the order's userId
PopulateUserId(id) == FindById(orders[id].userId)

\* getAllBookings: Order.find().populate('userId').populate('serviceId');
\* serviceId is a String path without ref and stays as it is
GetAllBookingsFind(p) ==
  /\ Ready(p, "bookingsAll")
  /\ Respond(p, req[p], loc[p],
             WithOrders(Response(200, "", Undef, NoToken), NoStats,
                        {PopulateUserId(id) : id \in DOMAIN orders} \ {NoDoc}))
  /\ UNCHANGED <<users, nextId, admins, clock, nodeEnv, staticOtp, sync, issued, hist>>

(* -------------------------- service controllers ------------------------ *)
\* serviceController.js.  The controllers are modelled as the router runs
\* them once the guards of the route have called next() (ServiceGuards
\* models the guards); they read nothing of req.user.

\* price < 0, for the prices that requests are sampled with
NegativePrices == {Num("-5")}
LessThanZero(price) == price \in NegativePrices

\* variant: only active services are looked up
ServiceFindOneActive(name) ==
  IF \E r \in services : r.name = name /\ r.isActive
  THEN CHOOSE r \in services : r.name = name /\ r.isActive
  ELSE NoDoc

\* Service.findOne({ name })
ServiceFindOne(name) ==
  IF \E r \in services : r.name = name
  THEN CHOOSE r \in services : r.name = name
  ELSE NoDoc

\* handlers that are about to create a service
PendingServices == Cardinality({q \in Procs : pc[q] = "serviceCreate"})

\* createService up to and including `await Service.findOne({ name })`
\* (complete: req.body.description is given)
CreateServiceStart(p, name, price, complete) ==
  LET rq == [NoReq EXCEPT !.op = "createService", !.name = name, !.price = price,
                          !.complete = complete]
  IN  /\ Free(p)
      /\ IF name = "" \/ ~complete \/ Falsy(price)
         THEN Respond(p, rq, NoLoc,
                      Response(400, "Please provide name, description, and price", Undef,
                               NoToken))
         ELSE IF LessThanZero(price)
         THEN Respond(p, rq, NoLoc, Response(400, "Price cannot be negative", Undef, NoToken))
         ELSE IF ServiceFindOne(name) # NoDoc
         THEN Respond(p, rq, [NoLoc EXCEPT !.service = ServiceFindOne(name)],
                      Response(400, "Service with this name already exists", Undef, NoToken))
         ELSE /\ Cardinality(services) + PendingServices < MaxServices
              /\ Await(p, rq, NoLoc, "serviceCreate")
      /\ UNCHANGED <<users, nextId, admins, clock, nodeEnv, staticOtp, sync, issued, hist>>

\* await Service.create({ name, ..., isActive: true }) and the 201; the
\* schema has no unique index, so the insert is never rejected
CreateServiceCreate(p) ==
  /\ Ready(p, "serviceCreate")
  /\ services' = services \cup {[_id |-> Cardinality(services) + 1, name |-> req[p].name,
                                 price |-> req[p].price, isActive |-> TRUE]}
  /\ Respond(p, req[p], loc[p], Response(201, "Service created successfully", Undef, NoToken))
  /\ UNCHANGED <<users, nextId, admins, clock, nodeEnv, staticOtp, issued, hist,
                 contacts, smsRows, lastSync, orders>>

ServiceNotFound == Response(404, "Service not found", Undef, NoToken)

\* updateService up to and including `await Service.findById(req.params.id)`,
\* and the check of the price
UpdateServiceStart(p, seg, name, price, active) ==
  LET rq == [NoReq EXCEPT !.op = "updateService", !.segment = seg, !.name = name,
                          !.price = price, !.isActive = active]
      service == ServiceFindById(seg)
      lc == [NoLoc EXCEPT !.service = service]
  IN  /\ Free(p)
      /\ IF ~CastsToObjectId(seg)
         THEN Respond(p, rq, NoLoc, CastError)
         ELSE IF service = NoDoc
         THEN Respond(p, rq, NoLoc, ServiceNotFound)
         ELSE IF price # Undef /\ LessThanZero(price)
         THEN Respond(p, rq, lc, Response(400, "Price cannot be negative", Undef, NoToken))
         ELSE IF name # "" /\ name # service.name
         THEN Await(p, rq, lc, "serviceFind")
         ELSE Await(p, rq, lc, "serviceSave")
      /\ UNCHANGED <<users, nextId, admins, clock, nodeEnv, staticOtp, sync, issued, hist>>

\* const existingService = await Service.findOne({ name })
UpdateServiceFind(p) ==
  /\ Ready(p, "serviceFind")
  /\ IF ServiceFindOne(req[p].name) # NoDoc
     THEN Respond(p, req[p], loc[p],
                  Response(400, "Service with this name already exists", Undef, NoToken))
     ELSE Await(p, req[p], loc[p], "serviceSave")
  /\ UNCHANGED <<users, nextId, admins, clock, nodeEnv, staticOtp, sync, issued, hist>>

\* service.save() of a loaded document whose paths were assigned as in
\* `set`: the paths whose value differs from the loaded one are written to
\* the stored document
ServiceSave(doc, set) ==
  services' = {IF r._id = doc._id
               THEN [f \in DOMAIN r |->
                       IF f \in DOMAIN set /\ set[f] # doc[f] THEN set[f] ELSE r[f]]
               ELSE r : r \in services}

\* the assignments of updateService (name, price, isActive) and
\* `await service.save()`, and the 200
UpdateServiceSave(p) ==
  LET doc == loc[p].service
      set == [name |-> IF req[p].name # "" THEN req[p].name ELSE doc.name,
              price |-> IF req[p].price # Undef THEN req[p].price ELSE doc.price,
              isActive |-> IF req[p].isActive # Undef THEN req[p].isActive = Bool(TRUE)
                           ELSE doc.isActive]
  IN  /\ Ready(p, "serviceSave")
      /\ ServiceSave(doc, set)
      /\ Respond(p, req[p], loc[p],
                 Response(200, "Service updated successfully", Undef, NoToken))
      /\ UNCHANGED <<users, nextId, admins, clock, nodeEnv, staticOtp, issued, hist,
                     contacts, smsRows, lastSync, orders>>

\* toggleServiceStatus up to and including `await Service.findById`
ToggleServiceStart(p, seg) ==
  LET rq == [NoReq EXCEPT !.op = "toggleServiceStatus", !.segment = seg]
      service == ServiceFindById(seg)
  IN  /\ Free(p)
      /\ IF ~CastsToObjectId(seg)
         THEN Respond(p, rq, NoLoc, CastError)
         ELSE IF service = NoDoc
         THEN Respond(p, rq, NoLoc, ServiceNotFound)
         ELSE Await(p, rq, [NoLoc EXCEPT !.service = service], "serviceToggle")
      /\ UNCHANGED <<users, nextId, admins, clock, nodeEnv, staticOtp, sync, issued, hist>>

\* service.isActive = !service.isActive; await service.save(), and the 200
ToggleServiceSave(p) ==
  /\ Ready(p, "serviceToggle")
  /\ ServiceSave(loc[p].service, [isActive |-> ~loc[p].service.isActive])
  /\ Respond(p, req[p], loc[p],
             Response(200, IF ~loc[p].service.isActive THEN "Service activated successfully"
                           ELSE "Service deactivated successfully", Undef, NoToken))
  /\ UNCHANGED <<users, nextId, admins, clock, nodeEnv, staticOtp, issued, hist,
                 contacts, smsRows, lastSync, orders>>

(* ------------------------------ environment ---------------------------- *)
\* the response of handler p has been delivered; the slot is free again
Return(p) ==
  /\ pc[p] = "done"
  /\ pc' = [pc EXCEPT ![p] = "idle"]
  /\ req' = [req EXCEPT ![p] = NoReq]
  /\ loc' = [loc EXCEPT ![p] = NoLoc]
  /\ resp' = [resp EXCEPT ![p] = NoResponse]
  /\ lastSync' = NoSync
  /\ UNCHANGED <<users, nextId, admins, clock, nodeEnv, staticOtp, issued, hist, shop,
                 contacts, smsRows>>

JWT_TTL_MS == JWT_TTL * 1000

\* time passes by d milliseconds
Tick(d) ==
  /\ \A q \in Procs : pc[q] # "done"
  /\ clock' = clock + d
  /\ UNCHANGED <<users, nextId, admins, nodeEnv, staticOtp, sync, issued, pc, req, loc, resp, hist>>

\* a millisecond passes (at most MaxSkew of them in a row)
TickMs == clock % OTP_TTL < MaxSkew /\ Tick(1)

\* one OTP lifetime passes (once)
TickOtp == clock < OTP_TTL /\ Tick(OTP_TTL)

\* one session token lifetime passes (once)
TickJwt == clock < JWT_TTL_MS /\ Tick(JWT_TTL_MS)

(* ---------------------------- specification ---------------------------- *)
\* the Admin document made by the seed script
SeedAdmin ==
  [email |-> SeedEmail, password |-> BcryptHash(SeedPassword), isActive |-> TRUE]

\* the server has started, in some environment, on a database that holds
\* the seeded admin and no user
Init ==
  /\ users = << >>
  /\ nextId = 1
  /\ admins = (SeedAdminId :> SeedAdmin)
  /\ clock = 0
  /\ nodeEnv \in NodeEnvValues
  /\ staticOtp \in StaticOtpValues
  /\ issued = {}
  /\ pc = [p \in Procs |-> "idle"]
  /\ req = [p \in Procs |-> NoReq]
  /\ loc = [p \in Procs |-> NoLoc]
  /\ resp = [p \in Procs |-> NoResponse]
  /\ otpLog = [id \in UserIds |-> NoLog]
  /\ readers = {}
  /\ otpUses = [id \in UserIds |-> 0]
  /\ contacts = {}
  /\ smsRows = {}
  /\ lastSync = NoSync
  /\ orders = << >>
  /\ services = {}

\* one OTP request at a time, every input
Next ==
  \/ \E p \in Procs1, ph \in SignupPhones : SendOtpStart(p, ph)
  \/ \E p \in Procs1 : SendOtpCreate(p)
  \/ \E p \in Procs1 : SendOtpSave(p)
  \/ \E p \in Procs1, ph \in LookupPhones, o \in PresentedOtps : VerifyOtpStart(p, ph, o)
  \/ \E p \in Procs1 : VerifyOtpCheck(p)
  \/ \E p \in Procs1 : VerifyOtpSave(p)
  \/ \E p \in Procs1, ph \in LookupPhones : ResendOtpStart(p, ph)
  \/ \E p \in Procs1 : ResendOtpGen(p)
  \/ \E p \in Procs1 : ResendOtpSave(p)
  \/ \E p \in Procs1 : Return(p)
  \/ TickMs
  \/ TickOtp

Spec == Init /\ [][Next]_vars

\* concurrent OTP requests for one phone number, in production with
\* generated codes
RacePhones == {PhoneA}
RaceOtps == {Str(c) : c \in generateOTP}

InitRace == Init /\ nodeEnv = "production" /\ staticOtp = ""

NextRace ==
  \/ \E p \in Procs, ph \in RacePhones : SendOtpStart(p, ph)
  \/ \E p \in Procs : SendOtpCreate(p)
  \/ \E p \in Procs : SendOtpSave(p)
  \/ \E p \in Procs, ph \in RacePhones, o \in RaceOtps : VerifyOtpStart(p, ph, o)
  \/ \E p \in Procs : VerifyOtpCheck(p)
  \/ \E p \in Procs : VerifyOtpSave(p)
  \/ \E p \in Procs, ph \in RacePhones : ResendOtpStart(p, ph)
  \/ \E p \in Procs : ResendOtpGen(p)
  \/ \E p \in Procs : ResendOtpSave(p)
  \/ \E p \in Procs : Return(p)
  \/ TickMs
  \/ TickOtp

SpecRace == InitRace /\ [][NextRace]_vars

\* two concurrent sendOtp requests for one phone number and nothing else
NextSend ==
  \/ \E p \in Procs, ph \in RacePhones : SendOtpStart(p, ph)
  \/ \E p \in Procs : SendOtpCreate(p)
  \/ \E p \in Procs : SendOtpSave(p)
  \/ \E p \in Procs : Return(p)
  \/ TickMs
  \/ TickOtp

SpecSend == InitRace /\ [][NextSend]_vars

\* the guarded user routes, one request at a time: users sign in with the
\* static code, the admin logs in and deletes users
GuardPhones == {PhoneA}
GuardOtps == {Str("123456")}

InitGuard == Init /\ nodeEnv = "production" /\ staticOtp = "123456"

NextGuard ==
  \/ \E p \in Procs1, ph \in GuardPhones : SendOtpStart(p, ph)
  \/ \E p \in Procs1 : SendOtpCreate(p)
  \/ \E p \in Procs1 : SendOtpSave(p)
  \/ \E p \in Procs1, ph \in GuardPhones, o \in GuardOtps : VerifyOtpStart(p, ph, o)
  \/ \E p \in Procs1 : VerifyOtpCheck(p)
  \/ \E p \in Procs1 : VerifyOtpSave(p)
  \/ \E p \in Procs1, h \in Headers : GetProfileStart(p, h)
  \/ \E p \in Procs1 : GetProfileFind(p)
  \/ \E p \in Procs1, h \in Headers, id \in UserIds : DeleteUserStart(p, h, id)
  \/ \E p \in Procs1 : DeleteUserDo(p)
  \/ \E p \in Procs1, e \in Emails, w \in Passwords : AdminLoginStart(p, e, w)
  \/ \E p \in Procs1 : AdminLoginCheck(p)
  \/ \E p \in Procs1 : Return(p)
  \/ TickJwt

SpecGuard == InitGuard /\ [][NextGuard]_vars

\* the admin side, one request at a time: users sign in with the static
\* code; admins log in, are created and deactivated; the routes behind
\* adminProtect and the service write routes are called
NextAdmin ==
  \/ \E p \in Procs1, ph \in GuardPhones : SendOtpStart(p, ph)
  \/ \E p \in Procs1 : SendOtpCreate(p)
  \/ \E p \in Procs1 : SendOtpSave(p)
  \/ \E p \in Procs1, ph \in GuardPhones, o \in GuardOtps : VerifyOtpStart(p, ph, o)
  \/ \E p \in Procs1 : VerifyOtpCheck(p)
  \/ \E p \in Procs1 : VerifyOtpSave(p)
  \/ \E p \in Procs1, h \in Headers, id \in UserIds : DeleteUserStart(p, h, id)
  \/ \E p \in Procs1 : DeleteUserDo(p)
  \/ \E p \in Procs1, e \in Emails, w \in Passwords : AdminLoginStart(p, e, w)
  \/ \E p \in Procs1 : AdminLoginCheck(p)
  \/ \E p \in Procs1, e \in Emails, w \in Passwords, n \in Names : CreateAdminStart(p, e, w, n)
  \/ \E p \in Procs1 : CreateAdminDo(p)
  \/ \E id \in DOMAIN admins : DeactivateAdmin(id)
  \/ \E p \in Procs1, h \in Headers, r \in ServiceWrites : ServiceWriteStart(p, h, r)
  \/ \E p \in Procs1 : Return(p)

SpecAdmin == InitGuard /\ [][NextAdmin]_vars

\* the first two Service documents made by the seed script (seed.js):
\* 'Wash & Iron' and 'Dry Clean', both active
SeedServices ==
  {[_id |-> 1, name |-> "Wash & Iron", price |-> Num("150"), isActive |-> TRUE],
   [_id |-> 2, name |-> "Dry Clean", price |-> Num("250"), isActive |-> TRUE]}

\* The sync routes start from a running service: the users of SyncUsers have
\* signed up, verified their numbers and hold their session tokens.
InitSync ==
  /\ users = [id \in SyncUsers |->
                [NewUser(SyncPhone(id), Undef, NoDate) EXCEPT !.isVerified = TRUE]]
  /\ nextId = MaxIds + 1
  /\ admins = (SeedAdminId :> SeedAdmin)
  /\ clock = 0
  /\ nodeEnv = "production"
  /\ staticOtp = ""
  /\ issued = {[sub |-> id, exp |-> JWT_TTL] : id \in SyncUsers}
  /\ pc = [p \in Procs |-> "idle"]
  /\ req = [p \in Procs |-> NoReq]
  /\ loc = [p \in Procs |-> NoLoc]
  /\ resp = [p \in Procs |-> NoResponse]
  /\ otpLog = [id \in UserIds |-> NoLog]
  /\ readers = {}
  /\ otpUses = [id \in UserIds |-> 0]
  /\ contacts = {}
  /\ smsRows = {}
  /\ lastSync = NoSync
  /\ orders = << >>
  /\ services = SeedServices

\* syncContacts, one request at a time, every input
NextContacts ==
  \/ \E p \in Procs1, h \in SyncHeaders, c \in ContactBodies, own \in OwnPhones :
       SyncContactsStart(p, h, c, own)
  \/ \E p \in Procs1 : SyncContactsAgain(p)
  \/ \E p \in Procs1 : SyncContactsFlag(p)
  \/ \E p \in Procs1 : SyncContactsBulkWrite(p)
  \/ \E p \in Procs1 : ContactsUpsert(p)
  \/ \E p \in Procs1 : ContactsInsert(p)
  \/ \E p \in Procs1 : SyncContactsCount(p)
  \/ \E p \in Procs1 : Return(p)

SpecContacts == InitSync /\ [][NextContacts]_vars

\* the SMS routes, one request at a time, every input
NextSms ==
  \/ \E p \in Procs1, h \in SyncHeaders, uid \in SmsUserIds, item \in SmsItems \cup {NoSms} :
       SyncSmsStart(p, h, uid, item)
  \/ \E p \in Procs1 : SyncSmsSave(p)
  \/ \E p \in Procs1, h \in SyncHeaders, uid \in SmsUserIds, b \in SmsBodies :
       SyncSmsBatchStart(p, h, uid, b)
  \/ \E p \in Procs1 : SmsBatchFind(p)
  \/ \E p \in Procs1 : SmsBatchCreate(p)
  \/ \E p \in Procs1 : SmsBatchDone(p)
  \/ \E p \in Procs1 : Return(p)

SpecSms == InitSync /\ [][NextSms]_vars

\* concurrent sync requests of one user (a client that uploads twice)
RaceUser == 1
RaceHeaders == {Bearer(t, TRUE) : t \in {u \in issued : u.sub = RaceUser}}
RaceSmsItems == {SmsItem("m1", TRUE)}
RaceSmsBodies == {List(<<SmsItem("m1", TRUE)>>),
                  List(<<SmsItem("m2", TRUE), SmsItem("m1", TRUE)>>)}
RaceContactBodies ==
  {List(<<ContactItem("Ann", PhoneA)>>),
   List(<<ContactItem("Bob", PhoneA), ContactItem("Ann", PhoneB)>>)}

NextSyncRace ==
  \/ \E p \in Procs, h \in RaceHeaders, item \in RaceSmsItems :
       SyncSmsStart(p, h, RaceUser, item)
  \/ \E p \in Procs : SyncSmsSave(p)
  \/ \E p \in Procs, h \in RaceHeaders, b \in RaceSmsBodies :
       SyncSmsBatchStart(p, h, RaceUser, b)
  \/ \E p \in Procs : SmsBatchFind(p)
  \/ \E p \in Procs : SmsBatchCreate(p)
  \/ \E p \in Procs : SmsBatchDone(p)
  \/ \E p \in Procs, h \in RaceHeaders, c \in RaceContactBodies :
       SyncContactsStart(p, h, c, PhoneMissing)
  \/ \E p \in Procs : SyncContactsFlag(p)
  \/ \E p \in Procs : SyncContactsBulkWrite(p)
  \/ \E p \in Procs : ContactsUpsert(p)
  \/ \E p \in Procs : ContactsInsert(p)
  \/ \E p \in Procs : SyncContactsCount(p)
  \/ \E p \in Procs : Return(p)

SpecSyncRace == InitSync /\ [][NextSyncRace]_vars

\* the contact routes and the profile update of one user, concurrently
LockstepBodies == {List(<<ContactItem("Ann", PhoneA)>>)}

NextLockstep ==
  \/ \E p \in Procs, h \in RaceHeaders, c \in LockstepBodies :
       SyncContactsStart(p, h, c, PhoneMissing)
  \/ \E p \in Procs : SyncContactsFlag(p)
  \/ \E p \in Procs : SyncContactsBulkWrite(p)
  \/ \E p \in Procs : ContactsUpsert(p)
  \/ \E p \in Procs : ContactsInsert(p)
  \/ \E p \in Procs : SyncContactsCount(p)
  \/ \E p \in Procs, h \in RaceHeaders : DeleteMyContactsStart(p, h)
  \/ \E p \in Procs : DeleteMyContactsMany(p)
  \/ \E p \in Procs : DeleteMyContactsFlag(p)
  \/ \E p \in Procs, h \in RaceHeaders, cp \in PermissionValues : UpdateProfileStart(p, h, cp)
  \/ \E p \in Procs : UpdateProfileDo(p)
  \/ \E p \in Procs : Return(p)

SpecLockstep == InitSync /\ [][NextLockstep]_vars

\* the order and booking routes, one request at a time: what the clients
\* send
ShopHeaders == {NoHeader} \cup {Bearer(t, TRUE) : t \in issued}
OrderSegments == {Oid(n) : n \in 1..(MaxOrders + 1)} \cup {Word("all"), Word("stats")}
ServiceSegments == {Oid(1), Oid(Cardinality(SeedServices) + 1), Word("wash")}
StatusValues == {Undef, Str("shipped")} \cup OrderStatuses

NextOrders ==
  \/ \E p \in Procs1, h \in ShopHeaders, c \in BOOLEAN : CreateOrderStart(p, h, c)
  \/ \E p \in Procs1 : CreateOrderDo(p)
  \/ \E p \in Procs1, h \in ShopHeaders, sid \in ServiceSegments, c \in BOOLEAN :
       CreateBookingStart(p, h, sid, c)
  \/ \E p \in Procs1 : CreateBookingService(p)
  \/ \E p \in Procs1 : CreateBookingUser(p)
  \/ \E p \in Procs1 : CreateBookingCreate(p)
  \/ \E p \in Procs1, h \in ShopHeaders, seg \in OrderSegments : CancelOrderStart(p, h, seg)
  \/ \E p \in Procs1 : CancelOrderFind(p)
  \/ \E p \in Procs1 : CancelOrderSave(p)
  \/ \E p \in Procs1, h \in ShopHeaders, seg \in OrderSegments, st \in StatusValues :
       PatchStatusStart(p, h, seg, st)
  \/ \E p \in Procs1 : PatchStatusFind(p)
  \/ \E p \in Procs1 : PatchStatusSave(p)
  \/ \E p \in Procs1, h \in ShopHeaders, seg \in OrderSegments : GetOrderStart(p, h, seg)
  \/ \E p \in Procs1 : GetOrderFind(p)
  \/ \E p \in Procs1 : Return(p)

SpecOrders == InitSync /\ [][NextOrders]_vars

\* the same with the status update and the listing of the booking routes,
\* and users who ask for a new OTP
BookingStatusValues == {Undef, Str("shipped"), Str("delivered")}

NextBookings ==
  \/ \E p \in Procs1, h \in ShopHeaders, c \in BOOLEAN : CreateOrderStart(p, h, c)
  \/ \E p \in Procs1 : CreateOrderDo(p)
  \/ \E p \in Procs1, h \in ShopHeaders, sid \in ServiceSegments, c \in BOOLEAN :
       CreateBookingStart(p, h, sid, c)
  \/ \E p \in Procs1 : CreateBookingService(p)
  \/ \E p \in Procs1 : CreateBookingUser(p)
  \/ \E p \in Procs1 : CreateBookingCreate(p)
  \/ \E p \in Procs1, h \in ShopHeaders, seg \in OrderSegments : CancelOrderStart(p, h, seg)
  \/ \E p \in Procs1 : CancelOrderFind(p)
  \/ \E p \in Procs1 : CancelOrderSave(p)
  \/ \E p \in Procs1, h \in ShopHeaders, seg \in OrderSegments, st \in BookingStatusValues :
       PatchStatusStart(p, h, seg, st)
  \/ \E p \in Procs1 : PatchStatusFind(p)
  \/ \E p \in Procs1 : PatchStatusSave(p)
  \/ \E p \in Procs1, h \in ShopHeaders, seg \in OrderSegments, st \in BookingStatusValues :
       UpdateOrderStatusStart(p, h, seg, st)
  \/ \E p \in Procs1 : UpdateOrderStatusDo(p)
  \/ \E p \in Procs1, h \in ShopHeaders : GetAllBookingsStart(p, h)
  \/ \E p \in Procs1 : GetAllBookingsFind(p)
  \/ \E p \in Procs1, ph \in {PhoneA} : SendOtpStart(p, ph)
  \/ \E p \in Procs1 : SendOtpSave(p)
  \/ \E p \in Procs1 : Return(p)

SpecBookings == InitSync /\ [][NextBookings]_vars

\* the service controllers, one request at a time: what the clients send
ServiceNames == {"", "Wash & Iron", "Ironing Only"}
ServicePrices == {Undef, Num("0"), Num("150")} \cup NegativePrices
ServiceIdSegments == {Oid(n) : n \in 1..(MaxServices + 1)} \cup {Word("wash")}
ActiveValues == {Undef, Bool(TRUE), Bool(FALSE)}

NextServices ==
  \/ \E p \in Procs1, n \in ServiceNames, pr \in ServicePrices, c \in BOOLEAN :
       CreateServiceStart(p, n, pr, c)
  \/ \E p \in Procs1 : CreateServiceCreate(p)
  \/ \E p \in Procs1, seg \in ServiceIdSegments, n \in ServiceNames, pr \in ServicePrices,
        a \in ActiveValues : UpdateServiceStart(p, seg, n, pr, a)
  \/ \E p \in Procs1 : UpdateServiceFind(p)
  \/ \E p \in Procs1 : UpdateServiceSave(p)
  \/ \E p \in Procs1, seg \in ServiceIdSegments : ToggleServiceStart(p, seg)
  \/ \E p \in Procs1 : ToggleServiceSave(p)
  \/ \E p \in Procs1 : Return(p)

SpecServices == InitSync /\ [][NextServices]_vars

\* two requests to the service controllers concurrently
RaceServiceNames == {"Dry Clean", "Ironing Only"}
RaceServiceSegments == {Oid(1), Oid(2)}

NextServiceRace ==
  \/ \E p \in Procs, n \in RaceServiceNames : CreateServiceStart(p, n, Num("150"), TRUE)
  \/ \E p \in Procs : CreateServiceCreate(p)
  \/ \E p \in Procs, seg \in RaceServiceSegments, n \in RaceServiceNames :
       UpdateServiceStart(p, seg, n, Undef, Undef)
  \/ \E p \in Procs : UpdateServiceFind(p)
  \/ \E p \in Procs : UpdateServiceSave(p)
  \/ \E p \in Procs, seg \in RaceServiceSegments : ToggleServiceStart(p, seg)
  \/ \E p \in Procs : ToggleServiceSave(p)
  \/ \E p \in Procs : Return(p)

SpecServiceRace == InitSync /\ [][NextServiceRace]_vars

TypeOK ==
  /\ nextId \in 1..(MaxIds + 1)
  /\ DOMAIN users \subseteq 1..(nextId - 1)
  /\ \A id \in DOMAIN users : users[id].phoneNumber \in ValidPhones
  /\ \A p \in Procs : pc[p] \in {"idle", "done", "sendCreate", "sendSave", "verifyCheck",
                                 "verifySave", "resendGen", "resendSave", "profileFind",
                                 "deleteUser", "adminLoginCheck", "createAdmin",
                                 "serviceHandler", "contactsFlag", "contactsBulk",
                                 "contactsOp", "contactsInsert", "smsSave",
                                 "smsBatchFind", "smsBatchCreate", "contactsDelete",
                                 "contactsUnflag", "profileUpdate", "orderCreate",
                                 "orderGet", "cancelFind", "cancelSave", "statusFind",
                                 "statusSave", "bookingService", "bookingUser",
                                 "bookingCreate", "bookingUpdate", "bookingsAll",
                                 "serviceFind", "serviceCreate", "serviceSave",
                                 "serviceToggle"}
  /\ DOMAIN orders = 1..Cardinality(DOMAIN orders)
  /\ \A id \in DOMAIN orders : orders[id].userId \in UserIds
  /\ \A r \in smsRows : r.userId \in UserIds /\ r.smsId \in {"m1", "m2"}
  /\ \A r \in contacts : r.userId \in UserIds /\ r.phoneNumber \in ValidPhones

(* ------------------------------- properties ---------------------------- *)
\* the error kinds of the specification, as the responses that carry them
IsValidationError(r) ==
  /\ r.status = 400
  /\ r.message \in {"Phone number is required",
                     "Please provide a valid 10 digit phone number",
                     "Phone number and OTP are required"}
  /\ r.token = NoToken
IsNotFoundError(r) == r.status = 404 /\ r.message = "User not found" /\ r.token = NoToken
IsExpiredError(r) == r.status = 400 /\ r.message = "OTP has expired" /\ r.token = NoToken
IsMismatchError(r) == r.status = 400 /\ r.message = "Invalid OTP" /\ r.token = NoToken
IsUnauthorizedError(r) == r.status = 401 /\ r.token = NoToken
IsSuccess(r) == r.status = 200

\* this step is the one in which the handler of slot p, serving op, answers
Answers(p, op) == pc[p] # "done" /\ pc'[p] = "done" /\ req'[p].op = op

\* the handler of slot p, serving op, has just answered
Answered(p, op) == pc[p] = "done" /\ req[p].op = op

\* strings of exactly ten decimal digits
TenDigits == [1..PHONE_LEN -> Digits]

\* C1: a sendOtp whose phone number is not ten decimal digits (the missing
\* one included) answers with a ValidationError (400), and that step leaves
\* the User collection, every field of every document, as it was.
C1_InvalidPhoneRejected ==
  [][\A p \in Procs :
       (Answers(p, "sendOtp") /\ req'[p].phoneNumber \notin TenDigits)
         => (IsValidationError(resp'[p]) /\ users' = users /\ nextId' = nextId)]_vars

\* an eleven-digit number was refused while a user was stored
C1_Witness ==
  \E p \in Procs :
    /\ Answered(p, "sendOtp")
    /\ req[p].phoneNumber = PhoneLong
    /\ IsValidationError(resp[p])
    /\ users # << >>

\* the _id of the User with the phone number of p's request (NoId: none)
Subject(p) == FindOne(req[p].phoneNumber)._id

\* the latest two OTP writes for the user of p's request were two successive
\* sendOtp calls
TwoSendOtps(p) == Subject(p) # NoId /\ otpLog[Subject(p)].prev # Undef

\* after the second of two successive sendOtp calls the stored code is the
\* one that call produced
SecondCodeStored ==
  \A p \in Procs :
    (Answered(p, "sendOtp") /\ IsSuccess(resp[p]) /\ TwoSendOtps(p))
      => /\ users[Subject(p)].otp = loc[p].otp
         /\ otpLog[Subject(p)].last = loc[p].otp

CheckedAfterExpiry(p) ==
  /\ loc[p].user # NoDoc
  /\ loc[p].user.otpExpiry # NoDate
  /\ loc[p].at # NoDate
  /\ loc[p].user.otpExpiry < loc[p].at

\* C3: a verifyOtp whose check runs later than the stored otpExpiry answers
\* with an ExpiredError whether or not the presented code equals the stored
\* one; the user's document is as it was read (isVerified included) and the
\* response carries no token.
C3_ExpiredRejected ==
  \A p \in Procs :
    (pc[p] \in {"done", "verifySave"} /\ req[p].op = "verifyOtp" /\ CheckedAfterExpiry(p))
      => /\ pc[p] = "done"
         /\ IsExpiredError(resp[p])
         /\ FindById(loc[p].user._id) = loc[p].user

\* the stored code was presented one millisecond after its expiry, ten
\* minutes after it was written, and refused
C3_Witness ==
  \E p \in Procs :
    /\ Answered(p, "verifyOtp")
    /\ CheckedAfterExpiry(p)
    /\ loc[p].at = loc[p].user.otpExpiry + 1
    /\ req[p].otp = loc[p].user.otp
    /\ ~loc[p].user.isVerified
    /\ IsExpiredError(resp[p])

\* C4: the step in which a verifyOtp answers with success leaves the user
\* with otp and otpExpiry absent and isVerified true; a verifyOtp that
\* presents the code last written for its user, after that code has been
\* accepted once and with no sendOtp / resendOtp since, answers with a
\* MismatchError.
C4_ClearedNoReplay ==
  [][\A p \in Procs :
       (Answers(p, "verifyOtp") /\ loc'[p].user # NoDoc)
         => LET id == loc'[p].user._id
            IN  /\ IsSuccess(resp'[p])
                     => /\ users'[id].otp = Undef
                        /\ users'[id].otpExpiry = NoDate
                        /\ users'[id].isVerified
                /\ (otpUses[id] >= 1 /\ req'[p].otp = otpLog[id].last)
                     => IsMismatchError(resp'[p])]_vars

\* the code that was accepted has been presented again and refused
C4_Witness ==
  \E p \in Procs :
    /\ Answered(p, "verifyOtp")
    /\ loc[p].user # NoDoc
    /\ otpUses[loc[p].user._id] = 1
    /\ req[p].otp = otpLog[loc[p].user._id].last
    /\ users[loc[p].user._id].isVerified
    /\ users[loc[p].user._id].otp = Undef
    /\ IsMismatchError(resp[p])

\* C5: for every code written by one sendOtp / resendOtp at most one
\* verifyOtp answers with success (and so at most one token is sent for it),
\* however the verifyOtp handlers for that number interleave.
C5_SingleUse == \A id \in UserIds : otpUses[id] <= 1

\* req.body carries a phone number and a code
InputsPresent(r) ==
  /\ r.phoneNumber \notin {PhoneMissing, PhoneEmpty}
  /\ r.otp \notin {Undef, Str(""), Num("0")}

\* C6: a verifyOtp that was given a phone number and a code answers with a
\* NotFoundError when no User has the number; otherwise with an ExpiredError
\* when the stored expiry lies before the time of its check; otherwise with
\* a MismatchError when the stored code is not the very value presented (the
\* number 100000 is not the string "100000").  The step in which a
\* verifyOtp answers without success changes no User and sends no token.
C6_FailureOrder ==
  [][\A p \in Procs :
       (Answers(p, "verifyOtp") /\ InputsPresent(req'[p]))
         => LET user == FindOne(req'[p].phoneNumber)
                expired == /\ user.otpExpiry # NoDate
                           /\ user.otpExpiry < loc'[p].at
            IN  /\ user = NoDoc => IsNotFoundError(resp'[p])
                /\ (user # NoDoc /\ expired) => IsExpiredError(resp'[p])
                /\ (user # NoDoc /\ ~expired /\ user.otp # req'[p].otp)
                     => IsMismatchError(resp'[p])
                /\ ~IsSuccess(resp'[p])
                     => /\ users' = users
                        /\ issued' = issued
                        /\ resp'[p].token = NoToken]_vars

\* a code other than the stored one was presented after the expiry, and the
\* answer was the ExpiredError
C6_Witness ==
  \E p \in Procs :
    /\ Answered(p, "verifyOtp")
    /\ InputsPresent(req[p])
    /\ CheckedAfterExpiry(p)
    /\ loc[p].user.otp.v # req[p].otp.v
    /\ IsExpiredError(resp[p])
    /\ FindById(loc[p].user._id) = loc[p].user

\* the codes sendOtp draws from in the running configuration
SendOtpCodes == {Str(c) : c \in StaticOrGenerated}

\* C7: a resendOtp for a number that has a User draws its code from the
\* source sendOtp draws from (the static OTP when one is configured), sets
\* the expiry ten minutes ahead and leaves exactly that pair stored; for a
\* number without a User it answers with a NotFoundError and no User exists
\* for the number afterwards.
C7_ResendAsSend ==
  \A p \in Procs :
    (Answered(p, "resendOtp") /\ req[p].phoneNumber \notin {PhoneMissing, PhoneEmpty})
      => IF loc[p].user = NoDoc
         THEN IsNotFoundError(resp[p]) /\ Subject(p) = NoId
         ELSE /\ IsSuccess(resp[p])
              /\ loc[p].otp \in SendOtpCodes
              /\ loc[p].otpExpiry = loc[p].at + OTP_TTL
              /\ users[Subject(p)].otp = loc[p].otp
              /\ users[Subject(p)].otpExpiry = loc[p].otpExpiry

SendOtpWrote(p) ==
  /\ Answered(p, "sendOtp") /\ IsSuccess(resp[p])
  /\ \/ loc[p].user = NoDoc
     \/ loc[p].user.otp # loc[p].otp
     \/ loc[p].user.otpExpiry # loc[p].otpExpiry

\* C9: however two concurrent sendOtp calls for one number interleave, at
\* most one User has the number, and when a call has written, the stored
\* otp and otpExpiry are the pair that call generated, both of them.
C9_LastWriterWins ==
  /\ \A ph \in RacePhones :
       Cardinality({id \in DOMAIN users : users[id].phoneNumber = ph}) <= 1
  /\ \A p \in Procs :
       SendOtpWrote(p)
         => /\ users[Subject(p)].otp = loc[p].otp
            /\ users[Subject(p)].otpExpiry = loc[p].otpExpiry

\* header h carries a session token that verifyOtp sent to a user whose
\* document has since been deleted (an _id is never given out twice)
TokenOfDeletedUser(h) ==
  /\ h.scheme = "Bearer" /\ h.signed
  /\ h.token \in issued
  /\ h.token.sub \in UserIds
  /\ h.token.sub \notin DOMAIN users

\* C10: a request to GET /api/user/profile that carries the session token
\* of a deleted user is answered 401 by the guard and the handler is not
\* reached, the token's signature and expiry being valid or not; the step
\* of the guard changes neither collection nor the tokens in circulation.
C10_DeletedUserRejected ==
  [][\A p \in Procs :
       (pc[p] = "idle" /\ req'[p].op = "getProfile")
         => /\ users' = users /\ admins' = admins /\ issued' = issued
            /\ TokenOfDeletedUser(req'[p].authorization)
                 => /\ pc'[p] = "done"
                    /\ IsUnauthorizedError(resp'[p])
                    /\ ~loc'[p].next]_vars

\* a deleted user's token, still within its lifetime, was refused
C10_Witness ==
  \E p \in Procs :
    /\ Answered(p, "getProfile")
    /\ TokenOfDeletedUser(req[p].authorization)
    /\ clock \div 1000 < req[p].authorization.token.exp
    /\ resp[p] = Unauthorized("User not found")
    /\ ~loc[p].next

IsForbiddenError(r) == r.status = 403 /\ r.token = NoToken

\* header h carries a token with our signature that has not expired
TokenVerifies(h) ==
  /\ h.scheme = "Bearer" /\ h.token # NoToken
  /\ h.signed
  /\ clock \div 1000 < h.token.exp

\* C11: a request to a route behind adminProtect (DELETE /api/user/:id)
\* whose header carries no token, another scheme, or a token that does not
\* verify is answered 401; one whose token verifies but names no Admin (a
\* user's session token) is answered 403; the handler is reached only with
\* a verified token whose subject is an Admin document.
C11_AdminGuard ==
  [][\A p \in Procs :
       (pc[p] = "idle" /\ req'[p].op = "deleteUser")
         => LET h == req'[p].authorization
            IN  /\ ~TokenVerifies(h)
                     => (pc'[p] = "done" /\ IsUnauthorizedError(resp'[p]) /\ ~loc'[p].next)
                /\ (TokenVerifies(h) /\ h.token.sub \notin DOMAIN admins)
                     => (pc'[p] = "done" /\ IsForbiddenError(resp'[p]) /\ ~loc'[p].next)
                /\ loc'[p].next
                     => (TokenVerifies(h) /\ h.token.sub \in DOMAIN admins)]_vars

\* the session token of a stored user, within its lifetime, was answered 403
C11_Witness ==
  \E p \in Procs :
    /\ Answered(p, "deleteUser")
    /\ TokenVerifies(req[p].authorization)
    /\ req[p].authorization.token.sub \in DOMAIN users
    /\ req[p].authorization.token \in issued
    /\ IsForbiddenError(resp[p])
    /\ ~loc[p].next

\* header h carries a token that adminLogin sent to an Admin whose isActive
\* flag is now false, and that still verifies
TokenOfDeactivatedAdmin(h) ==
  /\ TokenVerifies(h)
  /\ h.token \in issued
  /\ h.token.sub \in DOMAIN admins
  /\ ~admins[h.token.sub].isActive

\* C12: an adminLogin that finds an Admin whose isActive flag is false and
\* is given that Admin's password answers 401 and puts no token in
\* circulation; a request to a route behind adminProtect that carries a
\* token sent to that Admin before, still within its lifetime, reaches the
\* handler.
C12_DeactivatedAdmin ==
  [][\A p \in Procs :
       /\ (Answers(p, "adminLogin") /\ loc'[p].user # NoDoc
              /\ ~loc'[p].user.isActive
              /\ loc'[p].user.password = <<"bcrypt", req'[p].password>>)
            => (IsUnauthorizedError(resp'[p]) /\ issued' = issued)
       /\ (pc[p] = "idle" /\ req'[p].op = "deleteUser"
              /\ TokenOfDeactivatedAdmin(req'[p].authorization))
            => (pc'[p] = "deleteUser" /\ loc'[p].next)]_vars

\* the token of a deactivated admin has passed adminProtect
C12_Witness ==
  \E p \in Procs :
    /\ pc[p] = "deleteUser" /\ loc[p].next
    /\ TokenOfDeactivatedAdmin(req[p].authorization)

\* C13: whatever requests are made, the Admin collection holds no document
\* but the seeded one.
C13_AdminsOnlySeeded == DOMAIN admins = {SeedAdminId}

\* header h carries a verified token whose subject is an Admin document and
\* no User document
VerifiedAdminToken(h) ==
  /\ TokenVerifies(h)
  /\ h.token.sub \in DOMAIN admins
  /\ h.token.sub \notin DOMAIN users

\* C14: a request to a service write route (create, update, soft delete,
\* permanent delete, toggle) that carries a verified token of an Admin
\* passes the guards of the route and reaches the handler.
C14_AdminReachesServiceWrites ==
  \A p \in Procs :
    (req[p].op \in ServiceWrites /\ VerifiedAdminToken(req[p].authorization))
      => (pc[p] = "serviceHandler" /\ loc[p].next)

\* no two Contact rows share (userId, phoneNumber)
ContactKeysUnique ==
  \A r1 \in contacts, r2 \in contacts :
    (r1.userId = r2.userId /\ r1.phoneNumber = r2.phoneNumber) => r1 = r2

\* the syncContacts of slot p repeats the request that lastSync records
Resubmitted(p) ==
  /\ lastSync.runs >= 1
  /\ lastSync.userId = loc[p].user._id
  /\ lastSync.contacts = req[p].contacts
  /\ lastSync.userPhoneNumber = req[p].userPhoneNumber

\* C15: a syncContacts that is submitted again with the identical batch
\* (with or without the own number), any number of times, leaves the same
\* Contact rows of the user (their _id, phone number and name; the syncedAt
\* stamp is the time of the run) and the same number of them as the first
\* run left; and in every state no two Contact rows share
\* (userId, phoneNumber), also when the batch repeats a phone number.
C15_SyncContactsIdempotent ==
  /\ []ContactKeysUnique
  /\ [][\A p \in Procs :
          (Answers(p, "syncContacts") /\ Resubmitted(p))
            => /\ IsSuccess(resp'[p]) /\ resp'[p].data.success
               /\ ContactView(contacts', lastSync.userId) = lastSync.rows
               /\ Cardinality(ContactsOf(contacts', lastSync.userId))
                    = Cardinality(lastSync.rows)]_vars

\* a batch that names one number twice, with different names, and carries the
\* own number was answered for the third time, two rows being stored
C15_Witness ==
  \E p \in Procs :
    /\ Answered(p, "syncContacts")
    /\ lastSync.runs = 3
    /\ req[p].contacts = List(<<ContactItem("Ann", PhoneA), ContactItem("Bob", PhoneA)>>)
    /\ req[p].userPhoneNumber = PhoneB
    /\ resp[p].data.total = 3
    /\ resp[p].data.inserted = 0
    /\ Cardinality(lastSync.rows) = 2
    /\ \E r \in contacts : r.userId = lastSync.userId /\ r.name = "Bob"

\* this step is the one in which the syncSmsBatch of slot p, which passed
\* protect and the validation of its body, answers
BatchAnswers(p) ==
  /\ Answers(p, "syncSmsBatch")
  /\ loc'[p].next

\* C16: every syncSmsBatch call with N items, run without concurrent
\* writers, reports counters with synced + skipped + errors = N, where
\* skipped is the number of items whose (userId, smsId) had a row when the
\* item was looked up, and the number of Sms rows has grown by exactly
\* synced = N - skipped - errors.
C16_BatchCounters ==
  [][\A p \in Procs :
       BatchAnswers(p)
         => LET d == resp'[p].data
                N == Len(req'[p].smsData.v)
            IN  /\ IsSuccess(resp'[p]) /\ d.success
                /\ d.synced + d.skipped + d.errors = N
                /\ d.skipped = loc'[p].had
                /\ Cardinality(smsRows') - loc'[p].before = d.synced
                /\ d.synced = N - d.skipped - d.errors]_vars

\* an item that cannot be stored: null, or without a required field
Unstorable(item) == item.t = "null" \/ ~SmsValid(item)

\* an entry of a sequence
Occurs(x, seq) == \E i \in 1..Len(seq) : seq[i] = x

\* C17: a syncSmsBatch whose batch holds an item that cannot be stored
\* (null, or lacking a required field) still works through every item,
\* answers with its normal result, and lists the failing item (by its id)
\* among the errors, unless a row with the item's key exists.
C17_BatchNeverAborts ==
  [][\A p \in Procs :
       (BatchAnswers(p) /\ \E i \in 1..Len(req'[p].smsData.v) : Unstorable(req'[p].smsData.v[i]))
         => LET d == resp'[p].data
                b == req'[p].smsData.v
            IN  /\ IsSuccess(resp'[p]) /\ d.success
                /\ loc'[p].i = Len(b)
                /\ \A i \in 1..Len(b) :
                     (b[i].t = "object" /\ Unstorable(b[i])
                        /\ ~\E r \in smsRows' :
                              r.userId = req'[p].userId /\ r.smsId = b[i].id)
                       => Occurs(b[i].id, d.errorDetails)]_vars

\* no two Sms rows share (userId, smsId)
SmsKeysUnique ==
  \A r1 \in smsRows, r2 \in smsRows :
    (r1.userId = r2.userId /\ r1.smsId = r2.smsId) => r1 = r2

\* C18: under every interleaving of concurrent syncSms / syncSmsBatch calls
\* of one user, and of concurrent syncContacts calls of one user, the store
\* never holds two Sms rows with the same (userId, smsId) nor two Contact
\* rows with the same (userId, phoneNumber).
C18_NoDuplicateRows == SmsKeysUnique /\ ContactKeysUnique

\* two handlers were under way for one message, neither having found a row:
\* one inserted it, and the insertion of the other was refused by the index
\* (a contact row of the user being stored as well)
C18_Witness ==
  \E p \in Procs, q \in Procs :
    /\ p # q
    /\ Answered(p, "syncSms")
    /\ ~loc[p].found
    /\ resp[p].status = 500
    /\ req[q].op \in {"syncSms", "syncSmsBatch"}
    /\ Cardinality(SmsMatch(req[p].userId, req[p].sms.id)) = 1
    /\ contacts # {}

\* every item of a batch is an object that carries every required field
AllStorable(b) == \A i \in 1..Len(b) : ~Unstorable(b[i])

\* C19: a duplicate SMS sync attempt is silently skipped.  A syncSms for a
\* storable message that ends without inserting the row, the row being there
\* because of another sync of the same message (concurrent or earlier),
\* answers 200 success-without-insert and never a failure; a syncSmsBatch of
\* storable messages counts such items as skipped and reports no error.
C19_DuplicateSkipped ==
  [][\A p \in Procs :
       /\ (Answers(p, "syncSms") /\ loc'[p].next /\ ~Unstorable(req'[p].sms)
            /\ smsRows' = smsRows)
            => (IsSuccess(resp'[p]) /\ resp'[p].data.success)
       /\ (BatchAnswers(p) /\ AllStorable(req'[p].smsData.v))
            => /\ IsSuccess(resp'[p]) /\ resp'[p].data.success
               /\ resp'[p].data.errors = 0
               /\ resp'[p].data.synced + resp'[p].data.skipped
                    = Len(req'[p].smsData.v)]_vars

\* this step is the one in which the syncContacts of slot p, whose token
\* passed protect, answers
ContactsAnswers(p) ==
  /\ Answers(p, "syncContacts")
  /\ protect(req'[p].authorization) = NoResponse

\* C20: a syncContacts has set the caller's contactPermission to true by the
\* time it answers exactly when contacts is a non-empty list, also when the
\* batch write failed; with a value that is not a list it answers with a
\* ValidationError (400), with an empty list with the "nothing to do"
\* result (200, success false), and in these two cases neither the flag nor
\* any Contact row changes.
C20_PermissionOnNonEmptySync ==
  [][\A p \in Procs :
       ContactsAnswers(p)
         => LET c == req'[p].contacts
                uid == req'[p].authorization.token.sub
            IN  /\ (c.t = "array" /\ Len(c.v) > 0) => users'[uid].contactPermission
                /\ c.t # "array"
                     => /\ resp'[p].status = 400 /\ ~resp'[p].data.success
                        /\ users' = users /\ contacts' = contacts
                /\ (c.t = "array" /\ Len(c.v) = 0)
                     => /\ resp'[p].status = 200 /\ ~resp'[p].data.success
                        /\ resp'[p].message = "No contacts to sync"
                        /\ users' = users /\ contacts' = contacts]_vars

\* no syncContacts, deleteMyContacts or profile update is in progress
Quiet == \A p \in Procs : pc[p] \in {"idle", "done"}

\* C21: whenever no syncContacts, deleteMyContacts or profile update is in
\* progress, a user whose contactPermission is false has no Contact rows,
\* under every interleaving of those operations; and when deleteMyContacts
\* has answered, the user has no Contact rows and contactPermission is false.
C21_PermissionLockstep ==
  /\ Quiet => \A id \in DOMAIN users :
                ~users[id].contactPermission => ContactsOf(contacts, id) = {}
  /\ \A p \in Procs :
       (Answered(p, "deleteMyContacts") /\ IsSuccess(resp[p]))
         => /\ ContactsOf(contacts, loc[p].user._id) = {}
            /\ ~users[loc[p].user._id].contactPermission

\* the order that the handler of slot p read, as it is stored now
StoredOrder(p) == orders[loc[p].order._id]

IsInvalidStateError(r) == r.status = 400 /\ r.message = "Cannot cancel order with status"

\* the cancel request in slot p was answered after its order was read
CancelAnswered(p) == Answered(p, "cancelOrder") /\ loc[p].order # NoDoc

\* C22: a cancel request for an existing order by a signed-in user: when the
\* user is not the owner it is answered 403; when the owner cancels a
\* delivered or cancelled order it is answered 400 (InvalidStateError); in
\* both cases no order changes.  When the owner cancels an order in any
\* other status it is answered 200 and the stored status is cancelled.
C22_CancelOrder ==
  /\ [](\A p \in Procs :
          CancelAnswered(p) =>
            IF loc[p].order.userId # loc[p].user._id
            THEN IsForbiddenError(resp[p])
            ELSE IF loc[p].order.status \in {Str("delivered"), Str("cancelled")}
            THEN IsInvalidStateError(resp[p])
            ELSE IsSuccess(resp[p]) /\ StoredOrder(p).status = Str("cancelled"))
  /\ [][\A p \in Procs :
          (Answers(p, "cancelOrder") /\ ~IsSuccess(resp'[p])) => orders' = orders]_vars

\* the owner has cancelled an order that was picked
C22_Witness ==
  \E p \in Procs :
    /\ CancelAnswered(p)
    /\ loc[p].order.userId = loc[p].user._id
    /\ loc[p].order.status = Str("picked")
    /\ IsSuccess(resp[p])
    /\ StoredOrder(p).status = Str("cancelled")

\* C23: the status of every stored order is one of pending, picked,
\* in-process, delivered, cancelled, whatever requests the order and booking
\* routes have served, and an order that is created (POST /api/orders,
\* createBooking) is stored with status pending.
C23_StatusInEnum ==
  /\ [](\A id \in DOMAIN orders : orders[id].status \in OrderStatuses)
  /\ [][\A id \in DOMAIN orders' \ DOMAIN orders :
          orders'[id].status = Str("pending")]_vars

\* the PATCH /api/orders/:id/status request in slot p passed protect and was
\* answered
PatchAnswered(p) == Answered(p, "patchStatus") /\ loc[p].next

\* C24: a PATCH /api/orders/:id/status request of a signed-in user, owner or
\* not, whose target is an enum value and whose id names an existing order
\* is answered 200 and the order has the target status, whatever its status
\* was; a request whose target is missing or not an enum value is answered
\* 400 and changes no order.
C24_StatusUpdateUnrestricted ==
  /\ [](\A p \in Procs :
          PatchAnswered(p) =>
            IF req[p].status \notin OrderStatuses
            THEN resp[p].status = 400
            ELSE OrderFindById(req[p].segment) # NoDoc
                   => /\ IsSuccess(resp[p])
                      /\ OrderFindById(req[p].segment).status = req[p].status)
  /\ [][\A p \in Procs :
          (Answers(p, "patchStatus") /\ req'[p].status \notin OrderStatuses)
            => orders' = orders]_vars

\* a user who is not the owner has set a cancelled order back to pending
C24_Witness ==
  \E p \in Procs :
    /\ PatchAnswered(p)
    /\ loc[p].order # NoDoc
    /\ loc[p].order.userId # loc[p].user._id
    /\ loc[p].order.status = Str("cancelled")
    /\ req[p].status = Str("pending")
    /\ IsSuccess(resp[p])
    /\ StoredOrder(p).status = Str("pending")

\* C27: a GET /api/orders/all or /api/orders/stats request of a signed-in
\* user is dispatched to the all-orders or the stats handler, never to the
\* handler of '/:id', and is answered 200 with the counts of the stored
\* orders.
C27_AllAndStatsDispatched ==
  \A p \in Procs :
    (Answered(p, "getOrder") /\ loc[p].next
       /\ req[p].segment \in {Word("all"), Word("stats")})
      => /\ loc[p].handler =
              (IF req[p].segment = Word("all") THEN "getAllOrders" ELSE "getOrderStats")
         /\ IsSuccess(resp[p])
         /\ resp[p].stats = OrderStats

\* the User documents that the response of slot p carries
Disclosed(p) == (resp[p].docs \cup {resp[p].user}) \ {NoDoc}

\* document d carries a stored OTP or its expiry
HoldsOtp(d) ==
  \/ "otp" \in DOMAIN d /\ d.otp # Undef
  \/ "otpExpiry" \in DOMAIN d /\ d.otpExpiry # NoDate

\* the user that the request of slot p names: the subject of its token, or
\* the owner of its phone number
Named(p) ==
  IF req[p].authorization # NoHeader THEN req[p].authorization.token.sub
  ELSE FindOne(req[p].phoneNumber)._id

\* C28: no response carries the stored otp or otpExpiry of a user other
\* than the one the request names.
C28_OtpConfidential ==
  \A p \in Procs :
    pc[p] = "done" => \A d \in Disclosed(p) : d._id # Named(p) => ~HoldsOtp(d)

IsServiceValidationError(r) ==
  /\ r.status = 400
  /\ r.message \in {"Please provide name, description, and price", "Price cannot be negative"}

IsConflictError(r) ==
  r.status = 400 /\ r.message = "Service with this name already exists"

\* the createService request answered in this step names a stored service
\* and is complete otherwise: description given, price present and not
\* negative
NamesStoredService(p) ==
  /\ \E r \in services : r.name = req'[p].name
  /\ req'[p].complete
  /\ ~Falsy(req'[p].price)
  /\ ~LessThanZero(req'[p].price)

C26_ActiveNamesUnique ==
  \A r1, r2 \in services :
    (r1.isActive /\ r2.isActive /\ r1.name = r2.name) => r1 = r2

\* the verifyOtp in slot p has read its user and a sendOtp / resendOtp has
\* written a new code for that user since
Overtaken(p) ==
  /\ pc[p] \in {"verifyCheck", "verifySave"}
  /\ p \notin readers
  /\ otpLog[loc[p].user._id].last # Undef

\* C29: when a sendOtp or resendOtp has written code B for a number while a
\* verifyOtp for that number was in flight, the verifyOtp either fails or
\* leaves B stored with its expiry: it does not answer with success and
\* erase B.
C29_NewOtpSurvives ==
  [][\A p \in Procs :
       (Overtaken(p) /\ Answers(p, "verifyOtp") /\ IsSuccess(resp'[p]))
         => /\ loc[p].user._id \in DOMAIN users'
            /\ users'[loc[p].user._id].otp = otpLog[loc[p].user._id].last
            /\ users'[loc[p].user._id].otpExpiry # NoDate]_vars

\* C30: every Sms row that syncSms or syncSmsBatch creates has the userId of
\* the user whose token the request carries.
C30_SmsRowsOwnedByCaller ==
  [][\A r \in smsRows' \ smsRows :
       \E p \in Procs :
         /\ req[p].op \in {"syncSms", "syncSmsBatch"}
         /\ pc[p] \notin {"idle", "done"}
         /\ r.userId = req[p].authorization.token.sub]_vars
====
